---- MODULE Spec2Model ----
(***************************************************************************)
(* Model of the transaction-broadcaster engine: the repository (store),    *)
(* the per-sequence worker (Run / processTx / validateTx / broadcastTx /   *)
(* waitForTargetHeight / checkTxsAvailability) and the dispatcher event    *)
(* loop (RunLoop / runWorker / finishWorker), for several dispatcher       *)
(* instances sharing one store and one blockchain node.                    *)
(*                                                                         *)
(* Time is abstracted: a row's updated_at is kept as the flag "fresh"      *)
(* (updated_at is within the TTL that is compared against it); every write *)
(* of the row sets it, and the passage of time clears it.                  *)
(***************************************************************************)
EXTENDS Integers, Sequences, FiniteSets, TLC

\* ------------------------------------------------------------------ bounds
NInst == 2
NSeq == 2
MaxTx == 3
MaxWorkers == 2
MaxHeight == 3
\* the worker's heightsAfterLastTx setting (WORKER_HEIGHTS_AFTER_LAST_TX), kept small
HeightsAfterLastTx == 1

Insts == 1..NInst
Seqs == 1..NSeq
Workers == 1..MaxWorkers

\* ------------------------------------------------------- repository enums
StatePending == "pending"
StateProcessing == "processing"
StateDone == "done"
StateError == "error"

TransactionStatePending == "pending"
TransactionStateProcessing == "processing"
TransactionStateValidated == "validated"
TransactionStateUnconfirmed == "unconfirmed"
TransactionStateConfirmed == "confirmed"
TransactionStateError == "error"

\* node error codes
BroadcastClientError == "BroadcastClientError"
BroadcastServerError == "BroadcastServerError"
GetTxStatusError == "GetTxStatusError"
WaitForTxStatusTimeoutError == "WaitForTxStatusTimeoutError"
TxNotFoundError == "TxNotFoundError"
InternalError == "InternalError"

VARIABLES
    cfg,        \* the run's setting: instances started, sequence length, node behaviour
    seqs,       \* table sequences: id -> row (state "absent": no such row yet)
    txs,        \* table sequences_txs: sequence id -> position -> row
    height,     \* the node: current blockchain height
    chain,      \* the node: tx id -> height it is confirmed at (0: not in the blockchain)
    wk,         \* worker goroutines: slot -> local state of runWorker's goroutine and Run
    dloop,      \* per instance: where RunLoop is ("select", "tick", "default", "off")
    todo,       \* per instance: ids of the for-loop of the tick/default branch still to lease
    inflight    \* per instance: sequencesUnderProcessing

vars == <<cfg, seqs, txs, height, chain, wk, dloop, todo, inflight>>

\* ------------------------------------------------------------------ helpers
Positions(n) == 0..(n - 1)
\* the id the node assigns to the transaction at position pos of sequence s
TxID(s, pos) == 10 * s + pos
NoID == 0
AllTxIDs == {TxID(s, p) : s \in Seqs, p \in Positions(MaxTx)}

SetMin(S) == CHOOSE x \in S : \A y \in S : x <= y
SetMax(S) == CHOOSE x \in S : \A y \in S : y <= x

\* the ascending list of a set of ids ("order by s.id asc")
RECURSIVE SortedSeq(_)
SortedSeq(S) == IF S = {} THEN <<>> ELSE <<SetMin(S)>> \o SortedSeq(S \ {SetMin(S)})

\* -------------------------------------------------------------- repository
NewTxRow == [state |-> TransactionStatePending, id |-> NoID, height |-> 0,
             err |-> "", fresh |-> TRUE]
AbsentSeq == [state |-> "absent", fresh |-> FALSE, errMsg |-> "", errCode |-> 0]

\* CreateSequence: insert the sequence row (pending) and its n transaction rows
CreateSequenceRow == [state |-> StatePending, fresh |-> TRUE, errMsg |-> "", errCode |-> 0]
CreateSequenceTxs(n) == [p \in Positions(n) |-> NewTxRow]

\* select ... from sequences_txs where sequence_id=?0 order by position_in_sequence asc
\* (the reader looks at updated_at of processing rows only)
GetSequenceTxsByID(T, s) ==
    [p \in DOMAIN T[s] |->
        [T[s][p] EXCEPT !.fresh = (T[s][p].state = TransactionStateProcessing /\ T[s][p].fresh)]]

\* select s.id from sequences s where s.state=pending order by s.id asc
GetNewSequenceIds(S) == SortedSeq({s \in Seqs : S[s].state = StatePending})

\* ... where s.state=processing and s.updated_at < NOW() - ttl and s.id not in (excluding)
GetHangingSequenceIds(S, excluding) ==
    SortedSeq({s \in Seqs : /\ S[s].state = StateProcessing
                            /\ ~S[s].fresh
                            /\ s \notin excluding})

\* update sequences set state=?1, updated_at=NOW() where id=?0
SetSequenceStateByID(S, s, newState) ==
    IF S[s].state = "absent" THEN S
    ELSE [S EXCEPT ![s].state = newState, ![s].fresh = TRUE]

\* a faulty error write: error_code is not set
SetSequenceErrorStateNoCode(S, s, msg, code) ==
    IF S[s].state = "absent" THEN S
    ELSE [S EXCEPT ![s].state = StateError, ![s].errMsg = msg, ![s].fresh = TRUE]

\* update sequences set state=error, error_message=?1, error_code=?2, updated_at=NOW()
SetSequenceErrorStateByID(S, s, msg, code) ==
    IF S[s].state = "absent" THEN S
    ELSE [S EXCEPT ![s].state = StateError, ![s].errMsg = msg, ![s].errCode = code,
                   ![s].fresh = TRUE]

\* update sequences_txs set tx_id=?0, updated_at=NOW() where ... position_in_sequence=?2
SetSequenceTxID(T, s, pos, id) ==
    [T EXCEPT ![s][pos].id = id, ![s][pos].fresh = TRUE]

\* update sequences_txs set state=?0, updated_at=NOW() where ... position_in_sequence=?2
SetSequenceTxState(T, s, pos, newState) ==
    [T EXCEPT ![s][pos].state = newState, ![s][pos].fresh = TRUE]

\* a faulty update: the height is left out
SetSequenceTxConfirmedStateNoHeight(T, s, pos, h) ==
    [T EXCEPT ![s][pos].state = TransactionStateConfirmed, ![s][pos].fresh = TRUE]

\* update sequences_txs set state=confirmed, height=?1, updated_at=NOW() where ...
SetSequenceTxConfirmedState(T, s, pos, h) ==
    [T EXCEPT ![s][pos].state = TransactionStateConfirmed, ![s][pos].height = h,
              ![s][pos].fresh = TRUE]

\* a faulty reset: only the row that holds the id is written
SetSequenceTxsStateOnly(T, s, id, newState) ==
    [T EXCEPT ![s] = [p \in DOMAIN T[s] |->
          IF T[s][p].id = id
          THEN [T[s][p] EXCEPT !.state = newState, !.fresh = TRUE]
          ELSE T[s][p]]]

\* update sequences_txs set state=?0, updated_at=NOW() where sequence_id=?1 and
\* position_in_sequence >= (select position_in_sequence ... where tx_id=?2)
\* (no row holds the id: the subquery is null and no row is updated)
SetSequenceTxsStateAfter(T, s, id, newState) ==
    LET at == {p \in DOMAIN T[s] : T[s][p].id = id} IN
    IF at = {} THEN T
    ELSE [T EXCEPT ![s] = [p \in DOMAIN T[s] |->
              IF p >= SetMin(at)
              THEN [T[s][p] EXCEPT !.state = newState, !.fresh = TRUE]
              ELSE T[s][p]]]

\* update sequences_txs set error_message=?0, updated_at=NOW() where ...
SetSequenceTxErrorMessage(T, s, pos, msg) ==
    [T EXCEPT ![s][pos].err = msg, ![s][pos].fresh = TRUE]

\* update sequences_txs set error_message=null, updated_at=NOW() where ...
ResetSequenceTxErrorMessage(T, s, pos) ==
    [T EXCEPT ![s][pos].err = "", ![s][pos].fresh = TRUE]

\* -------------------------------------------------------------------- node
\* /transactions/status: not_found, unconfirmed, or confirmed at a height
NotFound == 0
Unconfirmed == -1
TxStatus(id) == IF id \in DOMAIN chain THEN chain[id] ELSE NotFound
IsConfirmed(id) == TxStatus(id) > 0

\* messages of a validation verdict / a broadcast error, by the pattern they match
MsgDuplicate == "State check failed. Reason: Transaction X is already in the state on a height of N"
MsgTimestamp == "Transaction timestamp T is more than Nms"
MsgOther == "other"
\* messages of the errors of WaitForTxStatus: tx not found, the deadline, an http status
MsgTxNotFound == "tx not found"
MsgDeadline == "wait for tx status time deadline is reached"
MsgStatus == "500 Internal Server Error"
\* a faulty pattern: the duplicate message is never recognised
MatchesDuplicateNever(msg) == FALSE
\* transactionDuplicateErrorRE / transactionTimestampErrorRE
MatchesDuplicateRE(msg) == msg = MsgDuplicate
MatchesTimestampRE(msg) == msg = MsgTimestamp

\* ValidateTx: a node error, or a verdict {valid, message}
ValidateTxResults(id) ==
    IF IsConfirmed(id)
    THEN {[err |-> FALSE, valid |-> FALSE, msg |-> MsgDuplicate]}
         \cup (IF ~cfg.errs THEN {} ELSE {[err |-> TRUE, valid |-> FALSE, msg |-> ""]})
    ELSE {[err |-> FALSE, valid |-> TRUE, msg |-> ""]}
         \cup (IF ~cfg.errs THEN {}
               ELSE {[err |-> TRUE, valid |-> FALSE, msg |-> ""],
                     [err |-> FALSE, valid |-> FALSE, msg |-> MsgOther],
                     [err |-> FALSE, valid |-> FALSE, msg |-> MsgTimestamp]})

\* the node's numeric error code carried by a BroadcastClientError
NodeErrorCode == 112

\* BroadcastTx: the tx id, or a node error {code, message, nodeErrorCode, id named}.
\* The node accepts (200) a transaction it does not hold and rejects (400) one it holds
\* with the duplicate message. On a 400 the interactor looks up the status of the id it
\* decodes from the payload; transactionModel.id is not exported, so the decoded id is
\* empty, its status is not_found (or the lookup fails), and the 400 comes back as
\* BroadcastClientError with the node's message.
BroadcastTxResults(id) ==
    IF TxStatus(id) # NotFound
    THEN {[ok |-> FALSE, id |-> id, code |-> BroadcastClientError,
           msg |-> MsgDuplicate, nodeCode |-> NodeErrorCode]}
         \cup (IF ~cfg.errs THEN {}
               ELSE {[ok |-> FALSE, id |-> NoID, code |-> GetTxStatusError,
                      msg |-> "400", nodeCode |-> 0],
                     [ok |-> FALSE, id |-> NoID, code |-> BroadcastServerError,
                      msg |-> "500", nodeCode |-> 0]})
    ELSE {[ok |-> TRUE, id |-> id, code |-> "", msg |-> "", nodeCode |-> 0]}
         \cup (IF ~cfg.errs THEN {}
               ELSE {[ok |-> FALSE, id |-> NoID, code |-> BroadcastClientError,
                      msg |-> MsgOther, nodeCode |-> NodeErrorCode],
                     [ok |-> FALSE, id |-> NoID, code |-> GetTxStatusError,
                      msg |-> "400", nodeCode |-> 0],
                     [ok |-> FALSE, id |-> NoID, code |-> BroadcastServerError,
                      msg |-> "500", nodeCode |-> 0]})

\* WaitForTxStatus(txID, confirmed): the height, or a node error. While the status is
\* unconfirmed the call keeps polling; it gives up with the timeout error.
WaitForTxStatusResults(id) ==
    (IF IsConfirmed(id) THEN {[ok |-> TRUE, height |-> TxStatus(id), code |-> "", msg |-> ""]}
     ELSE IF TxStatus(id) = NotFound
          THEN {[ok |-> FALSE, height |-> 0, code |-> TxNotFoundError, msg |-> MsgTxNotFound]}
          ELSE IF ~cfg.errs THEN {}
               ELSE {[ok |-> FALSE, height |-> 0, code |-> WaitForTxStatusTimeoutError,
                      msg |-> MsgDeadline]})
    \cup (IF ~cfg.errs THEN {}
          ELSE {[ok |-> FALSE, height |-> 0, code |-> GetTxStatusError, msg |-> MsgStatus]})

\* GetCurrentHeight: the height, or a node error
GetCurrentHeightResults ==
    {[ok |-> TRUE, height |-> height]}
    \cup (IF ~cfg.errs THEN {} ELSE {[ok |-> FALSE, height |-> 0]})

\* GetTxsAvailability: id -> (status # not_found), or a node error
GetTxsAvailability(ids) == [id \in ids |-> TxStatus(id) # NotFound]
GetTxsAvailabilityFails == cfg.errs

\* ------------------------------------------------------------------ worker
\* ErrorWithReason values (nil: Run returned no error)
NoOut == [kind |-> "none", reason |-> "", code |-> 0]
NilOut == [kind |-> "nil", reason |-> "", code |-> 0]
NewRecoverableError(reason) == [kind |-> "recoverable", reason |-> reason, code |-> 0]
\* a faulty constructor: the node's numeric code is dropped
NewNonRecoverableErrorNoCode(reason, code) == [kind |-> "nonrecoverable", reason |-> reason, code |-> 0]
NewNonRecoverableError(reason, code) == [kind |-> "nonrecoverable", reason |-> reason, code |-> code]
NewFatalError(reason) == [kind |-> "fatal", reason |-> reason, code |-> 0]

\* a free goroutine slot
FreeW == [pc |-> "free", inst |-> 0, seq |-> 0, pos |-> 0, loc |-> <<>>, arg |-> 0,
          avail |-> <<>>, vmsg |-> "", vfatal |-> FALSE, h |-> 0, out |-> NoOut]

NTxs(r) == Cardinality(DOMAIN r.loc)

\* Run returns: the goroutine goes on to send the outcome to the dispatcher
Return(r, o) == [r EXCEPT !.pc = "send", !.out = o, !.pos = 0, !.loc = <<>>, !.arg = 0,
                          !.avail = <<>>, !.vmsg = "", !.vfatal = FALSE, !.h = 0]
\* Run returns nil, having last observed the node at height hgt
ReturnNil(r, hgt) == [r EXCEPT !.pc = "send", !.out = NilOut, !.h = hgt]

\* a faulty switch: a row found processing is never taken over
EnterTxNeverResumes(r) ==
    LET st == r.loc[r.pos].state IN
    CASE st = TransactionStateProcessing ->
            {Return(r, NewRecoverableError("tx is under processing, processing TTL is not over"))}
      [] st = TransactionStatePending -> {[r EXCEPT !.pc = "txProcessing"]}
      [] st = TransactionStateValidated -> {[r EXCEPT !.pc = "broadcast"]}
      [] st = TransactionStateUnconfirmed -> {[r EXCEPT !.pc = "waitConfirm"]}
      [] st = TransactionStateError -> {Return(r, NewNonRecoverableError(r.loc[r.pos].err, 0))}
      [] OTHER -> {r}

\* a faulty resumption: a row found validated is taken as broadcast already
EnterTxSkipsBroadcast(r) ==
    LET st == r.loc[r.pos].state IN
    CASE st = TransactionStateProcessing ->
            (IF r.loc[r.pos].fresh
             THEN {Return(r, NewRecoverableError("tx is under processing, processing TTL is not over"))}
             ELSE {}) \cup {[r EXCEPT !.pc = "validate"]}
      [] st = TransactionStatePending -> {[r EXCEPT !.pc = "txProcessing"]}
      [] st = TransactionStateValidated -> {[r EXCEPT !.pc = "waitConfirm"]}
      [] st = TransactionStateUnconfirmed -> {[r EXCEPT !.pc = "waitConfirm"]}
      [] st = TransactionStateError -> {Return(r, NewNonRecoverableError(r.loc[r.pos].err, 0))}
      [] OTHER -> {r}

\* a faulty resumption: a row found unconfirmed is confirmed without asking the node
EnterTxTrustsUnconfirmed(r) ==
    LET st == r.loc[r.pos].state IN
    CASE st = TransactionStateProcessing ->
            (IF r.loc[r.pos].fresh
             THEN {Return(r, NewRecoverableError("tx is under processing, processing TTL is not over"))}
             ELSE {}) \cup {[r EXCEPT !.pc = "validate"]}
      [] st = TransactionStatePending -> {[r EXCEPT !.pc = "txProcessing"]}
      [] st = TransactionStateValidated -> {[r EXCEPT !.pc = "broadcast"]}
      [] st = TransactionStateUnconfirmed -> {[r EXCEPT !.pc = "setConfirmed"]}
      [] st = TransactionStateError -> {Return(r, NewNonRecoverableError(r.loc[r.pos].err, 0))}
      [] OTHER -> {r}

\* Run, lines 665-681: switch tx.State for the non-confirmed tx at r.pos. A processing
\* row read with a fresh updated_at may have aged past txProcessingTTL by now.
EnterTx(r) ==
    LET st == r.loc[r.pos].state IN
    CASE st = TransactionStateProcessing ->
            (IF r.loc[r.pos].fresh
             THEN {Return(r, NewRecoverableError("tx is under processing, processing TTL is not over"))}
             ELSE {}) \cup {[r EXCEPT !.pc = "validate"]}
      [] st = TransactionStatePending -> {[r EXCEPT !.pc = "txProcessing"]}
      [] st = TransactionStateValidated -> {[r EXCEPT !.pc = "broadcast"]}
      [] st = TransactionStateUnconfirmed -> {[r EXCEPT !.pc = "waitConfirm"]}
      [] st = TransactionStateError -> {Return(r, NewNonRecoverableError(r.loc[r.pos].err, 0))}
      [] OTHER -> {r}

\* a faulty loop: it goes to the last transaction that is not confirmed
LoopFromLast(r) ==
    LET rest == {p \in DOMAIN r.loc : p >= r.pos /\ r.loc[p].state # TransactionStateConfirmed} IN
    IF rest = {} THEN {[r EXCEPT !.pos = NTxs(r), !.pc = "height0"]}
    ELSE EnterTx([r EXCEPT !.pos = SetMax(rest)])

\* Run, lines 648-663 and 684-695: the loop over txs from position r.pos on. Confirmed
\* txs are collected; before a non-confirmed tx the collected ones are checked for
\* availability; after the last tx the target height is awaited.
LoopFrom(r) ==
    LET rest == {p \in DOMAIN r.loc : p >= r.pos /\ r.loc[p].state # TransactionStateConfirmed} IN
    IF rest = {} THEN {[r EXCEPT !.pos = NTxs(r), !.pc = "height0"]}
    ELSE LET k == SetMin(rest) IN
         IF k > 0 THEN {[r EXCEPT !.pos = k, !.pc = "avail"]}
         ELSE EnterTx([r EXCEPT !.pos = k])

\* confirmedTxs: the txs before r.pos (all confirmed), by id
ConfirmedTxIDs(r) == {r.loc[p].id : p \in {q \in DOMAIN r.loc : q < r.pos}}

\* a faulty target height: heightsAfterLastTx is left out
TargetHeightOfLastTx(r) ==
    SetMax({r.loc[p].height : p \in DOMAIN r.loc} \cup {0})

\* Run, lines 684-693: targetHeight
TargetHeight(r) ==
    LET hs == {r.loc[p].height : p \in DOMAIN r.loc} \cup {0} IN
    SetMax(hs) + HeightsAfterLastTx

\* the goroutine of runWorker: register the sequence, then Run
W_Start(w) ==
    /\ wk[w].pc = "start"
    /\ inflight' = [inflight EXCEPT ![wk[w].inst] = @ \cup {wk[w].seq}]
    /\ wk' = [wk EXCEPT ![w].pc = "load"]
    /\ UNCHANGED <<cfg, seqs, txs, height, chain, dloop, todo>>

\* Run: GetSequenceTxsByID, then the loop
W_Load(w) ==
    /\ wk[w].pc = "load"
    /\ \E r \in LoopFrom([wk[w] EXCEPT !.loc = GetSequenceTxsByID(txs, wk[w].seq), !.pos = 0]) :
          wk' = [wk EXCEPT ![w] = r]
    /\ UNCHANGED <<cfg, seqs, txs, height, chain, dloop, todo, inflight>>

\* checkTxsAvailability: GetTxsAvailability over the confirmed ids; one unavailable id
\* (the first the map iteration yields) is picked for the reset
W_Avail(w) ==
    LET r == wk[w]
        av == GetTxsAvailability(ConfirmedTxIDs(r))
        gone == {id \in DOMAIN av : ~av[id]} IN
    /\ r.pc = "avail"
    /\ \/ /\ GetTxsAvailabilityFails
          /\ wk' = [wk EXCEPT ![w] = Return(r, NewRecoverableError(InternalError))]
       \/ /\ gone = {}
          /\ IF r.pos < NTxs(r)
             THEN \E r2 \in EnterTx(r) : wk' = [wk EXCEPT ![w] = r2]
             ELSE wk' = [wk EXCEPT ![w].pc = "heightQ"]
       \/ /\ gone # {}
          /\ \E id \in gone : wk' = [wk EXCEPT ![w].pc = "reset", ![w].arg = id, ![w].avail = av]
    /\ UNCHANGED <<cfg, seqs, txs, height, chain, dloop, todo, inflight>>

\* checkTxsAvailability: SetSequenceTxsStateAfter(sequenceID, txID, pending)
W_Reset(w) ==
    /\ wk[w].pc = "reset"
    /\ txs' = SetSequenceTxsStateAfter(txs, wk[w].seq, wk[w].arg, TransactionStatePending)
    /\ wk' = [wk EXCEPT ![w] = Return(wk[w], NewRecoverableError("one of tx was pulled out from the blockchain"))]
    /\ UNCHANGED <<cfg, seqs, height, chain, dloop, todo, inflight>>

\* processTx, pending: SetSequenceTxState(processing)
W_TxProcessing(w) ==
    LET r == wk[w] IN
    /\ r.pc = "txProcessing"
    /\ txs' = SetSequenceTxState(txs, r.seq, r.pos, TransactionStateProcessing)
    /\ wk' = [wk EXCEPT ![w].pc = "validate",
                        ![w].loc[r.pos].state = TransactionStateProcessing]
    /\ UNCHANGED <<cfg, seqs, height, chain, dloop, todo, inflight>>

\* isTxOutdated: the local check of the payload's timestamp, or a decode error
IsTxOutdatedResults == IF ~cfg.errs THEN {"no"} ELSE {"no", "yes", "malformed"}

\* a faulty validateTx: a payload that cannot be decoded gives a FatalError
W_ValidateDecodeFatal(w) ==
    LET r == wk[w] IN
    /\ r.pc = "validate"
    /\ \E v \in ValidateTxResults(TxID(r.seq, r.pos)) :
          IF v.err THEN wk' = [wk EXCEPT ![w] = Return(r, NewRecoverableError(InternalError))]
          ELSE IF v.valid THEN wk' = [wk EXCEPT ![w].pc = "resetMsgV"]
          ELSE IF MatchesDuplicateRE(v.msg) THEN wk' = [wk EXCEPT ![w].pc = "setValidated"]
          ELSE \E od \in IsTxOutdatedResults :
                 IF od = "malformed"
                 THEN wk' = [wk EXCEPT ![w] = Return(r, NewFatalError("json"))]
                 ELSE LET fatal == MatchesTimestampRE(v.msg) \/ od = "yes" IN
                      wk' = [wk EXCEPT ![w].vmsg = v.msg, ![w].vfatal = fatal,
                                       ![w].pc = IF r.loc[r.pos].err = "" THEN "setErrMsg"
                                                 ELSE IF fatal THEN "setErrState"
                                                 ELSE "waitNext"]
    /\ UNCHANGED <<cfg, seqs, txs, height, chain, dloop, todo, inflight>>

\* validateTx: ValidateTx and the classification of its verdict
W_Validate(w) ==
    LET r == wk[w] IN
    /\ r.pc = "validate"
    /\ \E v \in ValidateTxResults(TxID(r.seq, r.pos)) :
          IF v.err THEN wk' = [wk EXCEPT ![w] = Return(r, NewRecoverableError(InternalError))]
          ELSE IF v.valid THEN wk' = [wk EXCEPT ![w].pc = "resetMsgV"]
          ELSE IF MatchesDuplicateRE(v.msg) THEN wk' = [wk EXCEPT ![w].pc = "setValidated"]
          ELSE \E od \in IsTxOutdatedResults :
                 IF od = "malformed"
                 THEN wk' = [wk EXCEPT ![w] = Return(r, NewNonRecoverableError("json", 0))]
                 ELSE LET fatal == MatchesTimestampRE(v.msg) \/ od = "yes" IN
                      wk' = [wk EXCEPT ![w].vmsg = v.msg, ![w].vfatal = fatal,
                                       ![w].pc = IF r.loc[r.pos].err = "" THEN "setErrMsg"
                                                 ELSE IF fatal THEN "setErrState"
                                                 ELSE "waitNext"]
    /\ UNCHANGED <<cfg, seqs, txs, height, chain, dloop, todo, inflight>>

\* a faulty validateTx: an invalid verdict of any kind ends in the error state
W_SetErrMsgGivesUp(w) ==
    LET r == wk[w] IN
    /\ r.pc = "setErrMsg"
    /\ txs' = SetSequenceTxErrorMessage(txs, r.seq, r.pos, r.vmsg)
    /\ wk' = [wk EXCEPT ![w].loc[r.pos].err = r.vmsg, ![w].pc = "setErrState"]
    /\ UNCHANGED <<cfg, seqs, height, chain, dloop, todo, inflight>>

\* validateTx: SetSequenceTxErrorMessage (only when no message is set yet)
W_SetErrMsg(w) ==
    LET r == wk[w] IN
    /\ r.pc = "setErrMsg"
    /\ txs' = SetSequenceTxErrorMessage(txs, r.seq, r.pos, r.vmsg)
    /\ wk' = [wk EXCEPT ![w].loc[r.pos].err = r.vmsg,
                        ![w].pc = IF r.vfatal THEN "setErrState" ELSE "waitNext"]
    /\ UNCHANGED <<cfg, seqs, height, chain, dloop, todo, inflight>>

\* validateTx: WaitForNextHeight reads the height it starts from
W_WaitNext(w) ==
    LET r == wk[w] IN
    /\ r.pc = "waitNext"
    /\ \E g \in GetCurrentHeightResults :
          IF g.ok THEN wk' = [wk EXCEPT ![w].pc = "waitNextPoll", ![w].arg = g.height]
          ELSE wk' = [wk EXCEPT ![w] = Return(r, NewRecoverableError(InternalError))]
    /\ UNCHANGED <<cfg, seqs, txs, height, chain, dloop, todo, inflight>>

\* WaitForNextHeight -> WaitForTargetHeight(currentHeight + 1): polls until the height
\* exceeds the target, then validateTx calls itself
W_WaitNextPoll(w) ==
    LET r == wk[w] IN
    /\ r.pc = "waitNextPoll"
    /\ \E g \in GetCurrentHeightResults :
          IF ~g.ok THEN wk' = [wk EXCEPT ![w] = Return(r, NewRecoverableError(InternalError))]
          ELSE /\ g.height > r.arg + 1
               /\ wk' = [wk EXCEPT ![w].pc = "validate", ![w].arg = 0,
                                   ![w].vmsg = "", ![w].vfatal = FALSE]
    /\ UNCHANGED <<cfg, seqs, txs, height, chain, dloop, todo, inflight>>

\* validateTx: SetSequenceTxState(error), NonRecoverable with the first message
W_SetErrState(w) ==
    LET r == wk[w]
        errorMessage == IF r.loc[r.pos].err # "" THEN r.loc[r.pos].err ELSE r.vmsg IN
    /\ r.pc = "setErrState"
    /\ txs' = SetSequenceTxState(txs, r.seq, r.pos, TransactionStateError)
    /\ wk' = [wk EXCEPT ![w] = Return(r, NewNonRecoverableError(errorMessage, 0))]
    /\ UNCHANGED <<cfg, seqs, height, chain, dloop, todo, inflight>>

\* validateTx, valid verdict: ResetSequenceTxErrorMessage
W_ResetMsgV(w) ==
    LET r == wk[w] IN
    /\ r.pc = "resetMsgV"
    /\ txs' = ResetSequenceTxErrorMessage(txs, r.seq, r.pos)
    /\ wk' = [wk EXCEPT ![w].loc[r.pos].err = "", ![w].pc = "setValidated"]
    /\ UNCHANGED <<cfg, seqs, height, chain, dloop, todo, inflight>>

\* a faulty cascade: after the write of validated the broadcast is left out
W_SetValidatedSkipsBroadcast(w) ==
    LET r == wk[w] IN
    /\ r.pc = "setValidated"
    /\ txs' = SetSequenceTxState(txs, r.seq, r.pos, TransactionStateValidated)
    /\ wk' = [wk EXCEPT ![w].loc[r.pos].state = TransactionStateValidated,
                        ![w].pc = "waitConfirm"]
    /\ UNCHANGED <<cfg, seqs, height, chain, dloop, todo, inflight>>

\* processTx: SetSequenceTxState(validated)
W_SetValidated(w) ==
    LET r == wk[w] IN
    /\ r.pc = "setValidated"
    /\ txs' = SetSequenceTxState(txs, r.seq, r.pos, TransactionStateValidated)
    /\ wk' = [wk EXCEPT ![w].loc[r.pos].state = TransactionStateValidated,
                        ![w].pc = "broadcast"]
    /\ UNCHANGED <<cfg, seqs, height, chain, dloop, todo, inflight>>

\* broadcastTx: BroadcastTx; a duplicate error names the id and counts as success
W_Broadcast(w) ==
    LET r == wk[w]
        id == TxID(r.seq, r.pos) IN
    /\ r.pc = "broadcast"
    /\ \E b \in BroadcastTxResults(id) :
          IF b.ok
          THEN /\ wk' = [wk EXCEPT ![w].pc = "resetMsgB", ![w].arg = b.id]
               /\ chain' = IF chain[id] = NotFound THEN [chain EXCEPT ![id] = Unconfirmed]
                           ELSE chain
          ELSE /\ chain' = chain
               /\ IF MatchesDuplicateRE(b.msg)
                  THEN wk' = [wk EXCEPT ![w].pc = "resetMsgB", ![w].arg = b.id]
                  ELSE IF b.code = BroadcastClientError
                  THEN wk' = [wk EXCEPT ![w] = Return(r, NewNonRecoverableError(b.msg, b.nodeCode))]
                  ELSE wk' = [wk EXCEPT ![w] = Return(r, NewRecoverableError(b.msg))]
    /\ UNCHANGED <<cfg, seqs, txs, height, dloop, todo, inflight>>

\* broadcastTx: ResetSequenceTxErrorMessage
W_ResetMsgB(w) ==
    LET r == wk[w] IN
    /\ r.pc = "resetMsgB"
    /\ txs' = ResetSequenceTxErrorMessage(txs, r.seq, r.pos)
    /\ wk' = [wk EXCEPT ![w].loc[r.pos].err = "", ![w].pc = "setTxID"]
    /\ UNCHANGED <<cfg, seqs, height, chain, dloop, todo, inflight>>

\* broadcastTx: SetSequenceTxID
W_SetTxID(w) ==
    LET r == wk[w] IN
    /\ r.pc = "setTxID"
    /\ txs' = SetSequenceTxID(txs, r.seq, r.pos, r.arg)
    /\ wk' = [wk EXCEPT ![w].loc[r.pos].id = r.arg, ![w].arg = 0, ![w].pc = "setUnconfirmed"]
    /\ UNCHANGED <<cfg, seqs, height, chain, dloop, todo, inflight>>

\* processTx: SetSequenceTxState(unconfirmed)
W_SetUnconfirmed(w) ==
    LET r == wk[w] IN
    /\ r.pc = "setUnconfirmed"
    /\ txs' = SetSequenceTxState(txs, r.seq, r.pos, TransactionStateUnconfirmed)
    /\ wk' = [wk EXCEPT ![w].loc[r.pos].state = TransactionStateUnconfirmed,
                        ![w].pc = "waitConfirm"]
    /\ UNCHANGED <<cfg, seqs, height, chain, dloop, todo, inflight>>

\* processTx, unconfirmed: waitForTxConfirmation(tx.ID)
W_WaitConfirm(w) ==
    LET r == wk[w] IN
    /\ r.pc = "waitConfirm"
    /\ \E c \in WaitForTxStatusResults(r.loc[r.pos].id) :
          IF c.ok THEN wk' = [wk EXCEPT ![w].pc = "setConfirmed", ![w].arg = c.height]
          ELSE IF c.code = TxNotFoundError
          THEN wk' = [wk EXCEPT ![w].pc = "setPendingNF", ![w].vmsg = c.msg]
          ELSE wk' = [wk EXCEPT ![w] = Return(r, NewRecoverableError(c.msg))]
    /\ UNCHANGED <<cfg, seqs, txs, height, chain, dloop, todo, inflight>>

\* a faulty branch: the row is not written back to pending
W_SetPendingNFSkipped(w) ==
    LET r == wk[w] IN
    /\ r.pc = "setPendingNF"
    /\ wk' = [wk EXCEPT ![w] = Return(r, NewRecoverableError(r.vmsg))]
    /\ UNCHANGED <<cfg, seqs, txs, height, chain, dloop, todo, inflight>>

\* processTx, TxNotFoundError: SetSequenceTxState(pending), then Recoverable
W_SetPendingNF(w) ==
    LET r == wk[w] IN
    /\ r.pc = "setPendingNF"
    /\ txs' = SetSequenceTxState(txs, r.seq, r.pos, TransactionStatePending)
    /\ wk' = [wk EXCEPT ![w] = Return(r, NewRecoverableError(r.vmsg))]
    /\ UNCHANGED <<cfg, seqs, height, chain, dloop, todo, inflight>>

\* processTx: SetSequenceTxConfirmedState(height); Run goes on with the next tx
W_SetConfirmed(w) ==
    LET r == wk[w]
        r1 == [r EXCEPT !.loc[r.pos].state = TransactionStateConfirmed,
                        !.loc[r.pos].height = r.arg, !.arg = 0, !.pos = r.pos + 1] IN
    /\ r.pc = "setConfirmed"
    /\ txs' = SetSequenceTxConfirmedState(txs, r.seq, r.pos, r.arg)
    /\ \E r2 \in LoopFrom(r1) : wk' = [wk EXCEPT ![w] = r2]
    /\ UNCHANGED <<cfg, seqs, height, chain, dloop, todo, inflight>>

\* a faulty entry: the wait always begins with a tick
W_Height0AlwaysTicks(w) ==
    LET r == wk[w] IN
    /\ r.pc = "height0"
    /\ \E g \in GetCurrentHeightResults :
          IF ~g.ok THEN wk' = [wk EXCEPT ![w] = Return(r, NewRecoverableError(InternalError))]
          ELSE wk' = [wk EXCEPT ![w].pc = "heartbeat"]
    /\ UNCHANGED <<cfg, seqs, txs, height, chain, dloop, todo, inflight>>

\* waitForTargetHeight, lines 888-898: the height on entry
W_Height0(w) ==
    LET r == wk[w] IN
    /\ r.pc = "height0"
    /\ \E g \in GetCurrentHeightResults :
          IF ~g.ok THEN wk' = [wk EXCEPT ![w] = Return(r, NewRecoverableError(InternalError))]
          ELSE IF g.height >= TargetHeight(r)
          THEN wk' = [wk EXCEPT ![w] = ReturnNil(r, g.height)]
          ELSE wk' = [wk EXCEPT ![w].pc = "heartbeat"]
    /\ UNCHANGED <<cfg, seqs, txs, height, chain, dloop, todo, inflight>>

\* a faulty tick: the availability check is left out
W_HeartbeatNoCheck(w) ==
    LET r == wk[w] IN
    /\ r.pc = "heartbeat"
    /\ seqs' = SetSequenceStateByID(seqs, r.seq, StateProcessing)
    /\ wk' = [wk EXCEPT ![w].pc = "heightQ"]
    /\ UNCHANGED <<cfg, txs, height, chain, dloop, todo, inflight>>

\* a faulty heartbeat: the worker itself closes the sequence
W_HeartbeatDone(w) ==
    LET r == wk[w] IN
    /\ r.pc = "heartbeat"
    /\ seqs' = SetSequenceStateByID(seqs, r.seq, StateDone)
    /\ wk' = [wk EXCEPT ![w].pc = "avail"]
    /\ UNCHANGED <<cfg, txs, height, chain, dloop, todo, inflight>>

\* waitForTargetHeight, each tick: SetSequenceStateByID(processing)
W_Heartbeat(w) ==
    LET r == wk[w] IN
    /\ r.pc = "heartbeat"
    /\ seqs' = SetSequenceStateByID(seqs, r.seq, StateProcessing)
    /\ wk' = [wk EXCEPT ![w].pc = "avail"]
    /\ UNCHANGED <<cfg, txs, height, chain, dloop, todo, inflight>>

\* waitForTargetHeight, each tick after the availability check: the height again
W_HeightQ(w) ==
    LET r == wk[w] IN
    /\ r.pc = "heightQ"
    /\ \E g \in GetCurrentHeightResults :
          IF ~g.ok THEN wk' = [wk EXCEPT ![w] = Return(r, NewRecoverableError(InternalError))]
          ELSE IF g.height >= TargetHeight(r)
          THEN wk' = [wk EXCEPT ![w] = ReturnNil(r, g.height)]
          ELSE wk' = [wk EXCEPT ![w].pc = "heartbeat"]
    /\ UNCHANGED <<cfg, seqs, txs, height, chain, dloop, todo, inflight>>

\* -------------------------------------------------------------- dispatcher
\* goroutine slots: cfg.maxw bounds the goroutines alive at once, and a branch of the
\* loop starts only when there is a slot for each id it is going to lease
FreeSlots == {w \in Workers : w <= cfg.maxw /\ wk[w].pc = "free"}
\* workers of instance i blocked on errorsChan / completedSequenceChan
ErrSenders(i) == {w \in Workers : wk[w].inst = i /\ wk[w].pc = "send" /\ wk[w].out.kind # "nil"}
DoneSenders(i) == {w \in Workers : wk[w].inst = i /\ wk[w].pc = "send" /\ wk[w].out.kind = "nil"}

\* runWorker: a new goroutine for seqID (it registers itself once it runs)
runWorker(W, w, i, s) == [W EXCEPT ![w] = [FreeW EXCEPT !.pc = "start", !.inst = i, !.seq = s]]

\* a faulty finishWorker: the id stays in sequencesUnderProcessing
finishWorkerKeep(F, i, s) == F

\* finishWorker: delete(sequencesUnderProcessing, seqID)
finishWorker(F, i, s) == [F EXCEPT ![i] = @ \ {s}]

\* a faulty error branch: a FatalError is handled as a NonRecoverableError is
ErrorArrivalFatalAsError(i) ==
    /\ dloop[i] = "select"
    /\ \E w \in ErrSenders(i) :
         LET e == wk[w].out
             s == wk[w].seq
             freed == [wk EXCEPT ![w] = FreeW] IN
         /\ inflight' = finishWorker(inflight, i, s)
         /\ IF e.kind = "recoverable"
            THEN /\ seqs' = SetSequenceStateByID(seqs, s, StateProcessing)
                 /\ wk' = runWorker(freed, SetMin(FreeSlots \cup {w}), i, s)
            ELSE /\ seqs' = SetSequenceErrorStateByID(seqs, s, e.reason, e.code)
                 /\ wk' = freed
    /\ UNCHANGED <<cfg, txs, height, chain, dloop, todo>>

\* a faulty error branch: the respawn after a Recoverable error also rewrites the
\* processing transactions of the sequence (updated_at = now)
ErrorArrivalRefreshes(i) ==
    /\ dloop[i] = "select"
    /\ \E w \in ErrSenders(i) :
         LET e == wk[w].out
             s == wk[w].seq
             freed == [wk EXCEPT ![w] = FreeW] IN
         /\ inflight' = finishWorker(inflight, i, s)
         /\ IF e.kind = "recoverable"
            THEN /\ seqs' = SetSequenceStateByID(seqs, s, StateProcessing)
                 /\ txs' = [txs EXCEPT ![s] = [p \in DOMAIN txs[s] |->
                               IF txs[s][p].state = TransactionStateProcessing
                               THEN [txs[s][p] EXCEPT !.fresh = TRUE] ELSE txs[s][p]]]
                 /\ wk' = runWorker(freed, SetMin(FreeSlots \cup {w}), i, s)
                 /\ dloop' = dloop
            ELSE /\ seqs' = IF e.kind = "nonrecoverable"
                            THEN SetSequenceErrorStateByID(seqs, s, e.reason, e.code)
                            ELSE seqs
                 /\ txs' = txs
                 /\ wk' = IF e.kind = "nonrecoverable" THEN freed
                          ELSE [x \in Workers |-> IF wk[x].inst = i THEN FreeW ELSE wk[x]]
                 /\ dloop' = IF e.kind = "nonrecoverable" THEN dloop
                             ELSE [dloop EXCEPT ![i] = "off"]
    /\ UNCHANGED <<cfg, height, chain, todo>>

\* RunLoop, case e := <-errorsChan
ErrorArrival(i) ==
    /\ dloop[i] = "select"
    /\ \E w \in ErrSenders(i) :
         LET e == wk[w].out
             s == wk[w].seq
             freed == [wk EXCEPT ![w] = FreeW] IN
         /\ inflight' = finishWorker(inflight, i, s)
         /\ CASE e.kind = "recoverable" ->
                   /\ seqs' = SetSequenceStateByID(seqs, s, StateProcessing)
                   /\ wk' = runWorker(freed, SetMin(FreeSlots \cup {w}), i, s)
                   /\ dloop' = dloop
              [] e.kind = "nonrecoverable" ->
                   /\ seqs' = SetSequenceErrorStateByID(seqs, s, e.reason, e.code)
                   /\ wk' = freed
                   /\ dloop' = dloop
              [] OTHER ->
                   \* FatalError: RunLoop returns the error and the process ends
                   /\ seqs' = seqs
                   /\ wk' = [x \in Workers |-> IF wk[x].inst = i THEN FreeW ELSE wk[x]]
                   /\ dloop' = [dloop EXCEPT ![i] = "off"]
    /\ UNCHANGED <<cfg, txs, height, chain, todo>>

\* RunLoop, case seqID := <-completedSequenceChan
CompletionArrival(i) ==
    /\ dloop[i] = "select"
    /\ \E w \in DoneSenders(i) :
         /\ inflight' = finishWorker(inflight, i, wk[w].seq)
         /\ seqs' = SetSequenceStateByID(seqs, wk[w].seq, StateDone)
         /\ wk' = [wk EXCEPT ![w] = FreeW]
    /\ UNCHANGED <<cfg, txs, height, chain, dloop, todo>>

\* RunLoop, case <-ticker.C: snapshot of sequencesUnderProcessing, GetHangingSequenceIds.
\* The ticker fires as time passes; a tick that finds no hanging sequence changes nothing.
TickBranch(i) ==
    /\ dloop[i] = "select"
    /\ LET ids == GetHangingSequenceIds(seqs, inflight[i]) IN
         /\ ids # <<>>
         /\ Len(ids) <= Cardinality(FreeSlots)
         /\ todo' = [todo EXCEPT ![i] = ids]
         /\ dloop' = [dloop EXCEPT ![i] = "tick"]
    /\ UNCHANGED <<cfg, seqs, txs, height, chain, wk, inflight>>

\* RunLoop, default (no channel is ready): GetNewSequenceIds
DefaultBranch(i) ==
    /\ dloop[i] = "select"
    /\ ErrSenders(i) = {}
    /\ DoneSenders(i) = {}
    /\ LET ids == GetNewSequenceIds(seqs) IN
         /\ Len(ids) <= Cardinality(FreeSlots)
         /\ todo' = [todo EXCEPT ![i] = ids]
         /\ dloop' = [dloop EXCEPT ![i] = IF ids = <<>> THEN "select" ELSE "default"]
    /\ UNCHANGED <<cfg, seqs, txs, height, chain, wk, inflight>>

\* a faulty for loop: the lease is written and no worker is started
LeaseNextNoWorker(i) ==
    /\ dloop[i] \in {"tick", "default"}
    /\ seqs' = SetSequenceStateByID(seqs, Head(todo[i]), StateProcessing)
    /\ todo' = [todo EXCEPT ![i] = Tail(@)]
    /\ dloop' = [dloop EXCEPT ![i] = IF Tail(todo[i]) = <<>> THEN "select" ELSE @]
    /\ UNCHANGED <<cfg, txs, height, chain, wk, inflight>>

\* the for loop of the tick and default branches, one id: SetSequenceStateByID(processing)
\* and runWorker; after the last id the loop is back at the select
LeaseNext(i) ==
    /\ dloop[i] \in {"tick", "default"}
    /\ FreeSlots # {}
    /\ LET s == Head(todo[i]) IN
         /\ seqs' = SetSequenceStateByID(seqs, s, StateProcessing)
         /\ wk' = runWorker(wk, SetMin(FreeSlots), i, s)
         /\ todo' = [todo EXCEPT ![i] = Tail(@)]
         /\ dloop' = [dloop EXCEPT ![i] = IF Tail(todo[i]) = <<>> THEN "select" ELSE @]
    /\ UNCHANGED <<cfg, txs, height, chain, inflight>>

\* ------------------------------------------------------------- environment
\* the admission API: CreateSequence
CreateSequence(s) ==
    /\ s <= cfg.nseq
    /\ seqs[s].state = "absent"
    /\ seqs' = [seqs EXCEPT ![s] = CreateSequenceRow]
    /\ txs' = [txs EXCEPT ![s] = CreateSequenceTxs(cfg.ntx)]
    /\ UNCHANGED <<cfg, height, chain, wk, dloop, todo, inflight>>

KnownTxIDs == {TxID(s, p) : s \in {x \in Seqs : seqs[x].state # "absent"}, p \in Positions(cfg.ntx)}

\* the node: a broadcast transaction gets into a block at the current height (while
\* the heights of the model still reach the target height that follows from it)
Mine(id) ==
    /\ chain[id] = Unconfirmed
    /\ height + HeightsAfterLastTx <= MaxHeight
    /\ chain' = [chain EXCEPT ![id] = height]
    /\ UNCHANGED <<cfg, seqs, txs, height, wk, dloop, todo, inflight>>

\* the node: a transaction of ours reaches the node by another way (a peer, a resend)
ForeignBroadcast(id) ==
    /\ cfg.reorg
    /\ id \in KnownTxIDs
    /\ chain[id] = NotFound
    /\ chain' = [chain EXCEPT ![id] = Unconfirmed]
    /\ UNCHANGED <<cfg, seqs, txs, height, wk, dloop, todo, inflight>>

\* the node: a reorganisation (or an eviction from the pool) drops a transaction
PullOut(id) ==
    /\ cfg.reorg
    /\ chain[id] # NotFound
    /\ chain' = [chain EXCEPT ![id] = NotFound]
    /\ UNCHANGED <<cfg, seqs, txs, height, wk, dloop, todo, inflight>>

\* the node: the next block
HeightAdvance ==
    /\ height < MaxHeight
    /\ height' = height + 1
    /\ UNCHANGED <<cfg, seqs, txs, chain, wk, dloop, todo, inflight>>

\* time: a processing sequence's updated_at gets older than sequenceTTL
ExpireSeq(s) ==
    /\ cfg.expire
    /\ seqs[s].state = StateProcessing
    /\ seqs[s].fresh
    /\ seqs' = [seqs EXCEPT ![s].fresh = FALSE]
    /\ UNCHANGED <<cfg, txs, height, chain, wk, dloop, todo, inflight>>

\* time: a processing transaction's updated_at gets older than txProcessingTTL
ExpireTx(s, p) ==
    /\ seqs[s].state # "absent"
    /\ p \in DOMAIN txs[s]
    /\ txs[s][p].state = TransactionStateProcessing
    /\ txs[s][p].fresh
    /\ txs' = [txs EXCEPT ![s][p].fresh = FALSE]
    /\ UNCHANGED <<cfg, seqs, height, chain, wk, dloop, todo, inflight>>

\* ----------------------------------------------------------- specification
InitWith(c) ==
    /\ cfg = c
    /\ seqs = [s \in Seqs |-> AbsentSeq]
    /\ txs = [s \in Seqs |-> <<>>]
    /\ height = 1
    /\ chain = [id \in AllTxIDs |-> NotFound]
    /\ wk = [w \in Workers |-> FreeW]
    /\ dloop = [i \in Insts |-> IF i \in c.active THEN "select" ELSE "off"]
    /\ todo = [i \in Insts |-> <<>>]
    /\ inflight = [i \in Insts |-> {}]

WorkerStep(w) ==
    \/ W_Start(w) \/ W_Load(w) \/ W_Avail(w) \/ W_Reset(w)
    \/ W_TxProcessing(w) \/ W_Validate(w) \/ W_SetErrMsg(w) \/ W_WaitNext(w)
    \/ W_WaitNextPoll(w) \/ W_SetErrState(w) \/ W_ResetMsgV(w) \/ W_SetValidated(w)
    \/ W_Broadcast(w) \/ W_ResetMsgB(w) \/ W_SetTxID(w) \/ W_SetUnconfirmed(w)
    \/ W_WaitConfirm(w) \/ W_SetPendingNF(w) \/ W_SetConfirmed(w)
    \/ W_Height0(w) \/ W_Heartbeat(w) \/ W_HeightQ(w)

DispatcherStep(i) ==
    \/ ErrorArrival(i) \/ CompletionArrival(i) \/ TickBranch(i)
    \/ DefaultBranch(i) \/ LeaseNext(i)

NodeStep ==
    \/ \E id \in AllTxIDs : Mine(id) \/ ForeignBroadcast(id) \/ PullOut(id)
    \/ HeightAdvance

TimeStep ==
    \/ \E s \in Seqs : ExpireSeq(s)
    \/ \E s \in Seqs, p \in Positions(MaxTx) : ExpireTx(s, p)

Next ==
    \/ \E s \in Seqs : CreateSequence(s)
    \/ \E i \in Insts : DispatcherStep(i)
    \/ \E w \in Workers : WorkerStep(w)
    \/ NodeStep
    \/ TimeStep

\* The runs that are explored. A setting fixes the instances started (active), the
\* sequences admitted (nseq) and their length (ntx), the goroutine slots (maxw), and
\* what the environment may do: node calls fail or reject (errs), transactions leave
\* the blockchain or reach it from elsewhere (reorg), sequence leases run out (expire).
\* two instances on one store, one sequence of one transaction, a flawless node
CfgShared == [active |-> Insts, nseq |-> 1, ntx |-> 1, maxw |-> MaxWorkers,
              errs |-> FALSE, reorg |-> FALSE, expire |-> TRUE]
\* one instance, one worker, one sequence of MaxTx transactions, reorganisations
CfgReorg == [active |-> {1}, nseq |-> 1, ntx |-> MaxTx, maxw |-> 1,
             errs |-> FALSE, reorg |-> TRUE, expire |-> TRUE]
\* one instance, one worker, one sequence of one transaction, a node that does anything
CfgWild == [active |-> {1}, nseq |-> 1, ntx |-> 1, maxw |-> 1,
            errs |-> TRUE, reorg |-> TRUE, expire |-> TRUE]
\* one instance, NSeq sequences of one transaction, a failing node, leases that hold
CfgBusy == [active |-> {1}, nseq |-> NSeq, ntx |-> 1, maxw |-> MaxWorkers,
            errs |-> TRUE, reorg |-> FALSE, expire |-> FALSE]
\* one instance, one sequence of two transactions, a flawless node
CfgGood == [active |-> {1}, nseq |-> 1, ntx |-> 2, maxw |-> MaxWorkers,
            errs |-> FALSE, reorg |-> FALSE, expire |-> TRUE]

Init == \E c \in {CfgShared, CfgReorg, CfgWild} : InitWith(c)
Spec == Init /\ [][Next]_vars

\* The scheduler runs every goroutine that can take a step (the event loop, the
\* workers), and time passes for a transaction left in state processing.
Fairness ==
    /\ \A i \in Insts : WF_vars(DispatcherStep(i))
    /\ \A w \in Workers : WF_vars(WorkerStep(w))
    /\ \A s \in Seqs, p \in Positions(MaxTx) : WF_vars(ExpireTx(s, p))

FairInit == \E c \in {CfgBusy, CfgWild, CfgShared} : InitWith(c)
FairSpec == FairInit /\ [][Next]_vars /\ Fairness

\* A well-behaved node: every validation valid, every broadcast accepted, every
\* transaction confirmed in time, the height keeps advancing, no reorganisation.
\* The steps that handle a node failure, a rejection or a lost transaction do not occur.
GoodWorkerStep(w) ==
    \/ W_Start(w) \/ W_Load(w) \/ W_Avail(w)
    \/ W_TxProcessing(w) \/ W_Validate(w) \/ W_ResetMsgV(w) \/ W_SetValidated(w)
    \/ W_Broadcast(w) \/ W_ResetMsgB(w) \/ W_SetTxID(w) \/ W_SetUnconfirmed(w)
    \/ W_WaitConfirm(w) \/ W_SetConfirmed(w)
    \/ W_Height0(w) \/ W_Heartbeat(w) \/ W_HeightQ(w)

\* the transactions of the run that are not in the blockchain (yet)
Unmined == {id \in {TxID(s, p) : s \in 1..cfg.nseq, p \in Positions(cfg.ntx)} : ~IsConfirmed(id)}

\* the next block of the well-behaved node: the last heights of the model are reached
\* only after every transaction of the run is confirmed
TimelyHeightAdvance ==
    /\ height + HeightsAfterLastTx < MaxHeight \/ Unmined = {}
    /\ HeightAdvance

GoodNext ==
    \/ \E s \in Seqs : CreateSequence(s)
    \/ \E i \in Insts : DispatcherStep(i)
    \/ \E w \in Workers : GoodWorkerStep(w)
    \/ \E id \in AllTxIDs : Mine(id)
    \/ TimelyHeightAdvance
    \/ \E s \in Seqs : ExpireSeq(s)
    \/ \E s \in Seqs, p \in Positions(MaxTx) : ExpireTx(s, p)

GoodFairness ==
    /\ \A i \in Insts : WF_vars(DispatcherStep(i))
    /\ \A w \in Workers : WF_vars(GoodWorkerStep(w))
    /\ \A s \in Seqs, p \in Positions(MaxTx) : WF_vars(ExpireTx(s, p))
    /\ \A s \in Seqs : WF_vars(CreateSequence(s))
    /\ \A id \in AllTxIDs : WF_vars(Mine(id))
    /\ WF_vars(TimelyHeightAdvance)

GoodInit == InitWith(CfgGood)
GoodSpec == GoodInit /\ [][GoodNext]_vars /\ GoodFairness

\* The process of instance i dies (a kill, a panic, RunLoop returning an error): its
\* event loop and its worker goroutines are gone, the rows in the store stay as they are.
Crash(i) ==
    /\ dloop[i] # "off"
    /\ dloop' = [dloop EXCEPT ![i] = "off"]
    /\ todo' = [todo EXCEPT ![i] = <<>>]
    /\ inflight' = [inflight EXCEPT ![i] = {}]
    /\ wk' = [w \in Workers |-> IF wk[w].inst = i THEN FreeW ELSE wk[w]]
    /\ UNCHANGED <<cfg, seqs, txs, height, chain>>

\* The orchestration starts a process in place of the one that died, when none is
\* running: main builds a dispatcher with an empty sequencesUnderProcessing and enters
\* RunLoop.
Restart(i) ==
    /\ i \notin cfg.active
    /\ \A j \in Insts : dloop[j] = "off"
    /\ dloop' = [dloop EXCEPT ![i] = "select"]
    /\ UNCHANGED <<cfg, seqs, txs, height, chain, wk, todo, inflight>>

\* one instance at a time, one sequence of two transactions, a flawless node; the
\* running process may die and another is started
CfgRecover == [active |-> {1}, nseq |-> 1, ntx |-> 2, maxw |-> MaxWorkers,
               errs |-> FALSE, reorg |-> FALSE, expire |-> TRUE]

RecoverNext ==
    \/ \E s \in Seqs : CreateSequence(s)
    \/ \E i \in Insts : DispatcherStep(i)
    \/ \E w \in Workers : GoodWorkerStep(w)
    \/ \E id \in AllTxIDs : Mine(id)
    \/ TimelyHeightAdvance
    \/ \E s \in Seqs : ExpireSeq(s)
    \/ \E s \in Seqs, p \in Positions(MaxTx) : ExpireTx(s, p)
    \/ \E i \in Insts : Crash(i) \/ Restart(i)

\* The scheduler runs the event loop and the workers; time passes for leases and for
\* transactions in state processing; a tick that is due is taken (select picks among
\* the ready cases at random, so a ready ticker is not passed over for ever).
RecoverFairness ==
    /\ \A i \in Insts : WF_vars(DispatcherStep(i)) /\ WF_vars(TickBranch(i))
    /\ \A w \in Workers : WF_vars(GoodWorkerStep(w))
    /\ \A s \in Seqs : WF_vars(ExpireSeq(s))
    /\ \A s \in Seqs, p \in Positions(MaxTx) : WF_vars(ExpireTx(s, p))

RecoverInit == InitWith(CfgRecover)
RecoverSpec == RecoverInit /\ [][RecoverNext]_vars /\ RecoverFairness

\* a faulty handling of a failing store call: Run returns a RecoverableError
W_StoreFailsRecoverable(w) ==
    /\ wk[w].pc \in {"load", "reset", "txProcessing", "setErrMsg", "setErrState", "resetMsgV",
                      "setValidated", "resetMsgB", "setTxID", "setUnconfirmed", "setPendingNF",
                      "setConfirmed", "heartbeat"}
    /\ wk' = [wk EXCEPT ![w] = Return(wk[w], NewRecoverableError("store"))]
    /\ UNCHANGED <<cfg, seqs, txs, height, chain, dloop, todo, inflight>>

\* the program points of a worker whose next step is a call of the store
StorePcs == {"load", "reset", "txProcessing", "setErrMsg", "setErrState", "resetMsgV",
             "setValidated", "resetMsgB", "setTxID", "setUnconfirmed", "setPendingNF",
             "setConfirmed", "heartbeat"}

\* a call of the store fails (the connection is lost, the statement is rejected): the
\* row is not written and Run returns a FatalError
W_StoreFails(w) ==
    /\ wk[w].pc \in StorePcs
    /\ wk' = [wk EXCEPT ![w] = Return(wk[w], NewFatalError("store"))]
    /\ UNCHANGED <<cfg, seqs, txs, height, chain, dloop, todo, inflight>>

\* one process at a time, one sequence of one transaction, a flawless node and a store
\* whose calls may fail under a worker
CfgFatal == [active |-> {1}, nseq |-> 1, ntx |-> 1, maxw |-> MaxWorkers,
             errs |-> FALSE, reorg |-> FALSE, expire |-> TRUE]

FatalNext ==
    \/ \E s \in Seqs : CreateSequence(s)
    \/ \E i \in Insts : DispatcherStep(i)
    \/ \E w \in Workers : GoodWorkerStep(w) \/ W_StoreFails(w)
    \/ \E id \in AllTxIDs : Mine(id)
    \/ TimelyHeightAdvance
    \/ \E s \in Seqs : ExpireSeq(s)
    \/ \E s \in Seqs, p \in Positions(MaxTx) : ExpireTx(s, p)
    \/ \E i \in Insts : Restart(i)

\* as RecoverFairness; and the orchestration restarts a process that has exited
FatalFairness ==
    /\ RecoverFairness
    /\ \A i \in Insts : WF_vars(Restart(i))

FatalInit == InitWith(CfgFatal)
FatalSpec == FatalInit /\ [][FatalNext]_vars /\ FatalFairness

\* RunLoop: a call of the store fails in the event loop (GetHangingSequenceIds on a
\* tick, GetNewSequenceIds in the default case, SetSequenceStateByID or
\* SetSequenceErrorStateByID on an arrival or for an id being leased): no row is
\* written, RunLoop returns the error and the process ends
D_StoreFails(i) ==
    /\ dloop[i] # "off"
    /\ dloop' = [dloop EXCEPT ![i] = "off"]
    /\ wk' = [x \in Workers |-> IF wk[x].inst = i THEN FreeW ELSE wk[x]]
    /\ UNCHANGED <<cfg, seqs, txs, height, chain, todo, inflight>>

\* a store whose calls may fail, under a worker and under the event loop: one process
\* with a node that does anything, or two processes with a flawless node
StoreFailNext ==
    \/ Next
    \/ \E w \in Workers : W_StoreFails(w)
    \/ \E i \in Insts : D_StoreFails(i)

StoreFailInit == \E c \in {CfgWild, CfgShared} : InitWith(c)
StoreFailSpec == StoreFailInit /\ [][StoreFailNext]_vars

\* a faulty return: a RunLoop that returns drains both channels first
RunLoopReturnsDrained(i) ==
    /\ dloop[i] # "off"
    /\ wk' = [x \in Workers |-> IF wk[x].inst = i /\ wk[x].pc = "send" THEN FreeW ELSE wk[x]]
    /\ dloop' = [dloop EXCEPT ![i] = "off"]
    /\ UNCHANGED <<cfg, seqs, txs, height, chain, todo, inflight>>

\* RunLoop returns, its goroutines still there: the loop has received a FatalError, or
\* the store call that handles an outcome it has received fails, or the query of a tick
\* or of the default branch or the write of a lease fails.  Nothing is written; nobody
\* receives from errorsChan and completedSequenceChan any more.
RunLoopReturns(i) ==
    /\ dloop[i] # "off"
    /\ \/ /\ dloop[i] = "select"
          /\ \E w \in ErrSenders(i) \cup DoneSenders(i) :
                /\ inflight' = finishWorker(inflight, i, wk[w].seq)
                /\ wk' = [wk EXCEPT ![w] = FreeW]
       \/ /\ ErrSenders(i) \cup DoneSenders(i) = {} \/ dloop[i] # "select"
          /\ UNCHANGED <<wk, inflight>>
    /\ dloop' = [dloop EXCEPT ![i] = "off"]
    /\ UNCHANGED <<cfg, seqs, txs, height, chain, todo>>

\* main: panic(err) once RunLoop has returned; the goroutines end with the process
Panic(i) ==
    /\ i \in cfg.active
    /\ dloop[i] = "off"
    /\ \E w \in Workers : wk[w].inst = i
    /\ wk' = [w \in Workers |-> IF wk[w].inst = i THEN FreeW ELSE wk[w]]
    /\ UNCHANGED <<cfg, seqs, txs, height, chain, dloop, todo, inflight>>

\* a pass of the event loop that does not return
RunningLoopStep(i) == DispatcherStep(i) /\ dloop'[i] # "off"

\* the setting of CfgFatal; the return of RunLoop and the end of the process are steps
\* of their own
ReturnNext ==
    \/ \E s \in Seqs : CreateSequence(s)
    \/ \E i \in Insts : RunningLoopStep(i) \/ RunLoopReturns(i) \/ Panic(i)
    \/ \E w \in Workers : GoodWorkerStep(w) \/ W_StoreFails(w)
    \/ \E id \in AllTxIDs : Mine(id)
    \/ HeightAdvance
    \/ \E s \in Seqs : ExpireSeq(s)
    \/ \E s \in Seqs, p \in Positions(MaxTx) : ExpireTx(s, p)

\* the event loop takes the outcome that worker w offers
Receipt(i, w) ==
    /\ RunningLoopStep(i) \/ RunLoopReturns(i)
    /\ wk[w].inst = i /\ wk[w].pc = "send"
    /\ wk'[w] # wk[w]

\* The scheduler runs the event loop for as long as RunLoop has not returned; select
\* chooses among its ready cases at random, so a sender that is ready each time the
\* loop is back at the select is not passed over for ever.
ReturnFairness ==
    /\ \A i \in Insts : WF_vars(RunningLoopStep(i) \/ RunLoopReturns(i))
    /\ \A i \in Insts : \A w \in Workers : SF_vars(Receipt(i, w))

ReturnInit == InitWith(CfgFatal)
ReturnSpec == ReturnInit /\ [][ReturnNext]_vars /\ ReturnFairness

\* Runs in succession: one process at a time with one worker slot, one sequence of two
\* transactions, a node whose view is stable (no failure, no rejection, nothing leaves
\* the blockchain). The process may die at any point of a Run; the process started in
\* its place leases the sequence again and runs it from the rows as they were left.
CfgResume == [active |-> {1}, nseq |-> 1, ntx |-> 2, maxw |-> 1,
              errs |-> FALSE, reorg |-> FALSE, expire |-> TRUE]
ResumeInit == InitWith(CfgResume)
ResumeSpec == ResumeInit /\ [][RecoverNext]_vars

\* Runs in succession under a fair scheduler: the event loop and the goroutines run,
\* a due tick is taken, and time passes for leases and for processing transactions.
TTLSpec == ResumeInit /\ [][RecoverNext]_vars /\ RecoverFairness

\* A node that fails and rejects while nothing leaves the blockchain: the steps that
\* handle a transaction lost from the node do not occur.
StableWorkerStep(w) ==
    \/ W_Start(w) \/ W_Load(w) \/ W_Avail(w)
    \/ W_TxProcessing(w) \/ W_Validate(w) \/ W_SetErrMsg(w) \/ W_WaitNext(w)
    \/ W_WaitNextPoll(w) \/ W_SetErrState(w) \/ W_ResetMsgV(w) \/ W_SetValidated(w)
    \/ W_Broadcast(w) \/ W_ResetMsgB(w) \/ W_SetTxID(w) \/ W_SetUnconfirmed(w)
    \/ W_WaitConfirm(w) \/ W_SetConfirmed(w)
    \/ W_Height0(w) \/ W_Heartbeat(w) \/ W_HeightQ(w)

\* one instance with MaxWorkers goroutine slots, one sequence of one transaction, a
\* node that fails and rejects
CfgInvalid == [active |-> {1}, nseq |-> 1, ntx |-> 1, maxw |-> MaxWorkers,
               errs |-> TRUE, reorg |-> FALSE, expire |-> TRUE]

InvalidNext ==
    \/ \E s \in Seqs : CreateSequence(s)
    \/ \E i \in Insts : DispatcherStep(i)
    \/ \E w \in Workers : StableWorkerStep(w)
    \/ \E id \in AllTxIDs : Mine(id)
    \/ HeightAdvance
    \/ \E s \in Seqs : ExpireSeq(s)
    \/ \E s \in Seqs, p \in Positions(MaxTx) : ExpireTx(s, p)

InvalidInit == InitWith(CfgInvalid)
InvalidSpec == InvalidInit /\ [][InvalidNext]_vars

\* ------------------------------------------------------------------ claims
\* worker slot w is executing Run (its goroutine is past the registration and has not
\* returned yet); it is alive from runWorker until the dispatcher has its outcome
Running(w) == wk[w].pc \notin {"free", "start", "send"}
Alive(w) == wk[w].pc # "free"

\* C1: in every reachable state, a sequence whose persisted state is done has every
\* transaction persisted as confirmed with a non-null height.
C1_DoneAllConfirmed ==
    \A s \in Seqs : seqs[s].state = StateDone =>
        \A p \in DOMAIN txs[s] : /\ txs[s][p].state = TransactionStateConfirmed
                                 /\ txs[s][p].height # 0

\* C2: at no time are two workers, of the same or of different instances, executing
\* Run on the same sequence id.
C2_OneRunPerSequence ==
    \A w1, w2 \in Workers :
        (w1 # w2 /\ Running(w1) /\ Running(w2)) => wk[w1].seq # wk[w2].seq

\* C3: within one dispatcher instance no two workers spawned for the same sequence id
\* are alive at once (spawned, outcome not yet received by the dispatcher).
C3_OneWorkerPerInstance ==
    \A w1, w2 \in Workers :
        (w1 # w2 /\ Alive(w1) /\ Alive(w2) /\ wk[w1].inst = wk[w2].inst)
            => wk[w1].seq # wk[w2].seq

\* the changes of a sequence's state the lifecycle allows (the insertion included)
AllowedChanges ==
    {<<"absent", StatePending>>, <<StatePending, StateProcessing>>,
     <<StateProcessing, StateDone>>, <<StateProcessing, StateError>>}

\* C4: every change of a sequence's persisted state is pending->processing,
\* processing->done or processing->error (processing->processing leaves the state as
\* it is); a state done or error is never replaced.
C4_StateChanges ==
    [][\A s \in Seqs : seqs'[s].state # seqs[s].state =>
            <<seqs[s].state, seqs'[s].state>> \in AllowedChanges]_vars

\* the steps of processTx / validateTx / broadcastTx for the transaction at r.pos:
\* a store write of that row, or a node validate / broadcast / confirmation-wait call
PerTxPcs == {"txProcessing", "validate", "setErrMsg", "setErrState", "resetMsgV",
             "setValidated", "broadcast", "resetMsgB", "setTxID", "setUnconfirmed",
             "waitConfirm", "setPendingNF", "setConfirmed"}

\* the positions whose row the next store write of worker w writes, or whose
\* transaction its next node call validates, broadcasts or waits for
Touches(w) ==
    LET r == wk[w] IN
    IF r.pc \in PerTxPcs THEN {r.pos}
    ELSE IF r.pc = "reset"
    THEN LET at == {p \in DOMAIN txs[r.seq] : txs[r.seq][p].id = r.arg} IN
         IF at = {} THEN {} ELSE {p \in DOMAIN txs[r.seq] : p >= SetMin(at)}
    ELSE {}

\* in this Run every transaction before position q is confirmed
ConfirmedBefore(w, q) ==
    \A k \in DOMAIN wk[w].loc : k < q => wk[w].loc[k].state = TransactionStateConfirmed

\* C5 as stated: within one Run the worker issues no store write and no node
\* validate / broadcast / confirmation-wait call for a position before every earlier
\* position is confirmed.
C5_StrictlyAscending ==
    \A w \in Workers : \A q \in Touches(w) : ConfirmedBefore(w, q)

\* C5 amended: the per-transaction writes and the validate / broadcast / confirmation
\* wait calls are for a position whose predecessors are all confirmed in this Run; the
\* only other write of transaction rows is the reset after a pull-out, which starts at
\* a confirmed transaction that the node reported absent (and so may reach rows after
\* a transaction that is not confirmed).
C5_AscendingButReset ==
    \A w \in Workers :
        /\ wk[w].pc \in PerTxPcs => ConfirmedBefore(w, wk[w].pos)
        /\ wk[w].pc = "reset" =>
              /\ wk[w].arg \in ConfirmedTxIDs(wk[w])
              /\ ~wk[w].avail[wk[w].arg]

\* a worker waits for the confirmation of a transaction that is not the first one
C5_Witness ==
    \E w \in Workers : wk[w].pc = "waitConfirm" /\ wk[w].pos >= 1

\* C6: when the dispatcher is handed a completion (and writes done), the node height
\* the worker observed last is at least the greatest height of the transactions it
\* holds confirmed plus heightsAfterLastTx.
C6_DoneAfterTargetHeight ==
    \A w \in Workers :
        (wk[w].pc = "send" /\ wk[w].out.kind = "nil") =>
            /\ \A p \in DOMAIN wk[w].loc : wk[w].loc[p].state = TransactionStateConfirmed
            /\ \A p \in DOMAIN wk[w].loc : wk[w].h >= wk[w].loc[p].height + HeightsAfterLastTx

\* a worker of a sequence with transactions has returned nil and waits to hand over
\* its completion; the sequence is still processing
C6_Witness ==
    \E w \in Workers : /\ wk[w].pc = "send" /\ wk[w].out.kind = "nil"
                       /\ NTxs(wk[w]) >= 1
                       /\ seqs[wk[w].seq].state = StateProcessing

\* C7: a worker returns nil only if, in the node state in which it observed a height
\* >= the target height, every transaction of the sequence is in the blockchain.
C7_NilOnlyIfAllAvailable ==
    [][\A w \in Workers :
          (wk[w].pc \in {"height0", "heightQ"} /\ wk'[w].pc = "send" /\ wk'[w].out.kind = "nil")
              => \A p \in DOMAIN wk[w].loc : TxStatus(wk[w].loc[p].id) # NotFound]_vars

\* C8: when GetTxsAvailability reported confirmed transactions absent, then as Run
\* returns every row from the position of each absent one on is pending, and Run
\* returns Recoverable.
C8_ResetFromEarliestAbsent ==
    [][\A w \in Workers :
          (wk[w].pc = "reset" /\ wk'[w].pc = "send") =>
              /\ wk'[w].out.kind = "recoverable"
              /\ \A id \in DOMAIN wk[w].avail : ~wk[w].avail[id] =>
                    \A p, q \in DOMAIN txs[wk[w].seq] :
                        (txs[wk[w].seq][p].id = id /\ q >= p)
                            => txs'[wk[w].seq][q].state = TransactionStatePending]_vars

\* sequence s is done, each transaction confirmed at the height the node reports
Settled(s) ==
    /\ seqs[s].state = StateDone
    /\ DOMAIN txs[s] # {}
    /\ \A p \in DOMAIN txs[s] : /\ txs[s][p].state = TransactionStateConfirmed
                                /\ IsConfirmed(txs[s][p].id)
                                /\ txs[s][p].height = TxStatus(txs[s][p].id)

\* C9: with a well-behaved node and fair scheduling every admitted sequence eventually
\* is done with each transaction confirmed at the height the node reported.
C9_AdmittedEventuallyDone ==
    \A s \in Seqs : (seqs[s].state # "absent") ~> Settled(s)

\* a sequence is settled
C9_Witness ==
    \E s \in Seqs : Settled(s)

\* C10: every sequence in state pending is eventually leased (written processing),
\* whatever the workers of the sequences in flight keep returning.
C10_PendingEventuallyLeased ==
    \A s \in Seqs : (seqs[s].state = StatePending) ~> (seqs[s].state # StatePending)

\* sequence s is leased and nobody works on it: no worker goroutine for it is alive
\* and no event loop is about to lease it, while a dispatcher is running
Orphaned(s) ==
    /\ seqs[s].state = StateProcessing
    /\ \A w \in Workers : Alive(w) => wk[w].seq # s
    /\ \E i \in Insts : dloop[i] # "off"

\* the steps of a transaction row, in their order
TxAdvances ==
    {<<TransactionStatePending, TransactionStateProcessing>>,
     <<TransactionStateProcessing, TransactionStateValidated>>,
     <<TransactionStateValidated, TransactionStateUnconfirmed>>,
     <<TransactionStateUnconfirmed, TransactionStateConfirmed>>}

\* the program points of a worker at which it writes the next state of its transaction
TxWritePcs == {"txProcessing", "setValidated", "setUnconfirmed", "setConfirmed"}

\* C11: a sequence in state processing whose process died is, once its lease is older
\* than sequenceTTL, written processing again and given a worker by the tick of a running
\* dispatcher (unless every process dies first); and each state a worker of the process
\* started in its place writes to a transaction row is the step that follows the row's
\* persisted state: no persisted step is made again, none is skipped or lost.
C11_HangingLeaseRecovery ==
    /\ [][\A w \in Workers :
            (/\ wk[w].inst \in Insts \ cfg.active
             /\ wk[w].pc \in TxWritePcs
             /\ wk'[w] # wk[w] /\ wk'[w].inst = wk[w].inst)
                => <<txs[wk[w].seq][wk[w].pos].state, txs'[wk[w].seq][wk[w].pos].state>>
                       \in TxAdvances]_vars
    /\ \A s \in Seqs :
          Orphaned(s) ~> (\/ \E w \in Workers : Alive(w) /\ wk[w].seq = s
                          \/ \A i \in Insts : dloop[i] = "off")

\* the event loop of instance i takes the outcome of worker w (a send on errorsChan or
\* completedSequenceChan is received) and goes on
Received(i, w) ==
    /\ dloop[i] = "select" /\ dloop'[i] = "select"
    /\ wk[w].inst = i /\ wk[w].pc = "send"
    /\ wk'[w] # wk[w]

\* the goroutines of instance i spawned for sequence s that have not begun yet
Spawned(W, i, s) == {x \in Workers : W[x].inst = i /\ W[x].seq = s /\ W[x].pc = "start"}

\* C12: when the dispatcher receives a Recoverable outcome for sequence S it removes S
\* from the in-flight set, writes S state processing with a fresh updated_at, and spawns
\* exactly one new worker for S; S is not written error or done.
C12_RecoverableRespawns ==
    [][\A i \in Insts : \A w \in Workers :
          (Received(i, w) /\ wk[w].out.kind = "recoverable") =>
              LET s == wk[w].seq IN
              /\ s \notin inflight'[i]
              /\ seqs'[s].state = StateProcessing /\ seqs'[s].fresh
              /\ Cardinality(Spawned(wk', i, s)) = Cardinality(Spawned(wk, i, s)) + 1
              /\ \A x \in Workers : wk'[x] # wk[x] => (x = w \/ x \in Spawned(wk', i, s))]_vars

\* a worker respawned after a Recoverable outcome: the only worker slot holds a goroutine
\* that has not begun, for a sequence whose transaction was already worked on
C12_Witness ==
    /\ cfg = CfgWild
    /\ \E w \in Workers : /\ wk[w].pc = "start"
                          /\ seqs[wk[w].seq].state = StateProcessing
                          /\ txs[wk[w].seq][0].state # TransactionStatePending

\* C13: when the dispatcher receives a NonRecoverable outcome for sequence S it writes
\* S state error with the error's reason as error_message and its numeric code as
\* error_code, and spawns no worker for S.
C13_NonRecoverableWritesError ==
    [][\A i \in Insts : \A w \in Workers :
          (Received(i, w) /\ wk[w].out.kind = "nonrecoverable") =>
              LET s == wk[w].seq IN
              /\ seqs'[s].state = StateError
              /\ seqs'[s].errMsg = wk[w].out.reason
              /\ seqs'[s].errCode = wk[w].out.code
              /\ wk'[w].pc = "free"
              /\ \A x \in Workers : x # w => wk'[x] = wk[x]]_vars

\* a sequence is in state error with the node's code of a rejected broadcast
C13_Witness ==
    \E s \in Seqs : /\ seqs[s].state = StateError
                     /\ seqs[s].errCode = NodeErrorCode
                     /\ seqs[s].errMsg = MsgOther

\* C14: when the dispatcher receives a Fatal outcome for sequence S, RunLoop returns
\* (the process ends) without writing any row: S keeps the state it has. The loop that
\* returned handles no further outcome. S, left in state processing without a worker,
\* is leased again and given a worker by a process started afterwards.
C14_FatalStopsLoop ==
    /\ [][\A i \in Insts : \A w \in Workers :
            (/\ dloop[i] = "select" /\ wk[w].inst = i /\ wk[w].pc = "send"
             /\ wk[w].out.kind = "fatal" /\ wk'[w] # wk[w])
                => /\ dloop'[i] = "off"
                   /\ seqs' = seqs /\ txs' = txs]_vars
    /\ [][\A i \in cfg.active :
            dloop[i] = "off"
                => /\ dloop'[i] = "off" /\ inflight'[i] = inflight[i] /\ todo'[i] = todo[i]
                   /\ \A w \in Workers : wk'[w].inst # i]_vars
    /\ \A s \in Seqs :
          (Orphaned(s) \/ (seqs[s].state = StateProcessing /\ \A i \in Insts : dloop[i] = "off"))
              ~> (\E w \in Workers : Alive(w) /\ wk[w].seq = s)

\* the loop of the first process has returned on a Fatal outcome, the sequence is still
\* processing; a process started afterwards has given it a worker
C14_Witness ==
    /\ dloop[1] = "off"
    /\ \E w \in Workers : /\ wk[w].inst = 2 /\ Running(w)
                          /\ seqs[wk[w].seq].state = StateProcessing

\* worker w takes a step of its goroutine (registration or a step of Run)
WorkerActs(w) ==
    /\ wk[w].pc \notin {"free", "send"}
    /\ wk'[w] # wk[w]
    /\ wk'[w].pc # "free"

\* the sequence rows a step closes: written, and in state done or error afterwards
Closed == {s \in Seqs : seqs'[s] # seqs[s] /\ seqs'[s].state \in {StateDone, StateError}}

\* C15: a step of a worker goroutine never leaves a sequence row newly in state done or
\* error; the only write it makes to a sequence row is the heartbeat of
\* waitForTargetHeight, which writes state processing to its own sequence. A row is
\* written done or error only by an event loop in the step that receives the outcome of
\* a worker of that sequence.
C15_WorkerNeverClosesSequence ==
    [][/\ \A w \in Workers :
            WorkerActs(w) =>
                /\ Closed = {}
                /\ \/ seqs' = seqs
                   \/ /\ wk[w].pc = "heartbeat"
                      /\ seqs' = [seqs EXCEPT ![wk[w].seq].state = StateProcessing,
                                              ![wk[w].seq].fresh = TRUE]
       /\ \A s \in Closed :
            \E i \in Insts : \E w \in Workers :
                /\ Received(i, w) /\ wk[w].seq = s
                /\ wk[w].out.kind = IF seqs'[s].state = StateDone THEN "nil"
                                    ELSE "nonrecoverable"]_vars

\* a worker waiting for the target height has just written its heartbeat: the row is
\* processing with a fresh updated_at and the availability check of that tick is next
C15_Witness ==
    \E w \in Workers : /\ wk[w].pc = "avail" /\ wk[w].pos = NTxs(wk[w])
                          /\ seqs[wk[w].seq].state = StateProcessing
                          /\ seqs[wk[w].seq].fresh

\* what one uninterrupted Run leaves of sequence s under a stable node: every
\* transaction confirmed, under its own id, at the height the node has it at
RowsFinal(s) ==
    \A p \in DOMAIN txs[s] :
        /\ txs[s][p].state = TransactionStateConfirmed
        /\ txs[s][p].id = TxID(s, p)
        /\ IsConfirmed(TxID(s, p))
        /\ txs[s][p].height = TxStatus(TxID(s, p))

AllConfirmed(s) == \A p \in DOMAIN txs[s] : txs[s][p].state = TransactionStateConfirmed

\* a Run over a sequence whose transactions are all confirmed changes no transaction row
RerunOfConfirmedWritesNoTx ==
    \A w \in Workers : (WorkerActs(w) /\ AllConfirmed(wk[w].seq)) => txs' = txs

\* C16 (as stated): under a stable node, wherever the Run before it stopped, a Run of a
\* sequence ends as one uninterrupted Run does: outcome nil, every transaction persisted
\* confirmed with its id and the node's height; and a Run over a sequence whose
\* transactions are all confirmed changes no transaction row.
C16_ResumeSameAsOneRun ==
    /\ [](\A w \in Workers :
            wk[w].pc = "send" => (wk[w].out.kind = "nil" /\ RowsFinal(wk[w].seq)))
    /\ [][RerunOfConfirmedWritesNoTx]_vars

\* C16 (amended): under a stable node, wherever the Run before it stopped, a Run of a
\* sequence either ends as one uninterrupted Run does (outcome nil, every transaction
\* persisted confirmed with its id and the node's height), or it finds the transaction
\* the earlier Run stopped at in state processing, which at the load requires an
\* updated_at younger than txProcessingTTL, and returns Recoverable having written no
\* transaction row; and a Run over a sequence whose transactions are all confirmed
\* changes no transaction row.
C16_ResumeSameUnlessUnderProcessing ==
    /\ [](\A w \in Workers :
            wk[w].pc = "send" =>
                \/ wk[w].out.kind = "nil" /\ RowsFinal(wk[w].seq)
                \/ /\ wk[w].out = NewRecoverableError("tx is under processing, processing TTL is not over")
                   /\ \E p \in DOMAIN txs[wk[w].seq] :
                         txs[wk[w].seq][p].state = TransactionStateProcessing)
    /\ [][\A w \in Workers :
            (WorkerActs(w) /\ wk'[w].out.kind = "recoverable") =>
                /\ txs' = txs
                /\ \E p \in DOMAIN txs[wk[w].seq] :
                      /\ txs[wk[w].seq][p].state = TransactionStateProcessing
                      /\ wk[w].pc = "load" => txs[wk[w].seq][p].fresh]_vars
    /\ [][RerunOfConfirmedWritesNoTx]_vars

\* the Run of a process started after the first one died has ended as an uninterrupted
\* Run does
C16_Witness ==
    \E w \in Workers : /\ wk[w].inst \in Insts \ cfg.active
                          /\ wk[w].pc = "send" /\ wk[w].out.kind = "nil"
                          /\ RowsFinal(wk[w].seq)

\* worker w returns from BroadcastTx: a step of its goroutine from the call
Broadcasts(w) == wk[w].pc = "broadcast" /\ WorkerActs(w)

\* what broadcastTx goes on with when BroadcastTx succeeded returning id X
AfterBroadcastOf(r, X) == [r EXCEPT !.pc = "resetMsgB", !.arg = X]

\* the program points of broadcastTx and processTx between BroadcastTx and the
\* confirmation wait, by what is persisted before each
BroadcastTail(w) ==
    LET r == wk[w]
        row == txs[r.seq][r.pos] IN
    /\ r.pc \in {"resetMsgB", "setTxID"} => r.arg = TxID(r.seq, r.pos)
    /\ r.pc = "setTxID" => r.loc[r.pos].err = ""
    /\ r.pc = "setUnconfirmed" => (r.loc[r.pos].id = TxID(r.seq, r.pos) /\ r.loc[r.pos].err = "")
    /\ (r.pc = "waitConfirm" /\ r.loc[r.pos].state = TransactionStateUnconfirmed)
           => r.loc[r.pos].id # NoID

\* C17: when BroadcastTx fails with the node's duplicate error naming id X (the node
\* holds the transaction already), broadcastTx goes on exactly as after a BroadcastTx
\* that returned X: no error is returned for the step and no row is written by it, the
\* error message is cleared next, then tx_id X is persisted, then state unconfirmed, and
\* the confirmation of X is awaited. The duplicate message is never returned as an error.
C17_DuplicateAbsorbed ==
    /\ [][\A w \in Workers :
            Broadcasts(w) =>
                LET X == TxID(wk[w].seq, wk[w].pos) IN
                /\ wk'[w].out.reason # MsgDuplicate
                /\ (TxStatus(X) # NotFound /\ ~cfg.errs) => wk'[w].pc # "send"
                /\ wk'[w].pc # "send" =>
                      /\ wk'[w] = AfterBroadcastOf(wk[w], X)
                      /\ txs' = txs /\ seqs' = seqs]_vars
    /\ [][\A w \in Workers :
            LET r == wk[w] IN
            WorkerActs(w) =>
               /\ r.pc = "resetMsgB" =>
                     (txs'[r.seq][r.pos].err = "" /\ wk'[w].pc = "setTxID")
               /\ r.pc = "setTxID" =>
                     (txs'[r.seq][r.pos].id = r.arg /\ wk'[w].pc = "setUnconfirmed")
               /\ r.pc = "setUnconfirmed" =>
                     /\ txs'[r.seq][r.pos].state = TransactionStateUnconfirmed
                     /\ wk'[w].pc = "waitConfirm"
                     /\ wk'[w].loc[r.pos].id = wk[w].loc[r.pos].id]_vars
    /\ [](\A w \in Workers : Alive(w) /\ wk[w].pc # "start" /\ wk[w].pc # "send" /\ wk[w].pc # "load"
                                => (wk[w].pos \in DOMAIN wk[w].loc => BroadcastTail(w)))

\* two workers have each just returned from BroadcastTx for the same transaction and
\* nothing leaves the blockchain: the later of the two calls met the duplicate error
C17_Witness ==
    /\ cfg = CfgShared
    /\ \E w1, w2 \in Workers :
          /\ w1 # w2
          /\ wk[w1].pc = "resetMsgB" /\ wk[w2].pc = "resetMsgB"
          /\ wk[w1].seq = wk[w2].seq /\ wk[w1].pos = wk[w2].pos

\* the error broadcastTx is to return for a node error b that is not a duplicate
BroadcastErrorFor(b) ==
    IF b.code = BroadcastClientError
    THEN [kind |-> "nonrecoverable", reason |-> b.msg, code |-> b.nodeCode]
    ELSE [kind |-> "recoverable", reason |-> b.msg, code |-> 0]

\* C18: BroadcastTx returns one of the node's answers b for the transaction. If b is an
\* error whose message is not the duplicate message, broadcastTx returns NonRecoverable
\* with the node's message and numeric code when b's code is BroadcastClientError and
\* Recoverable with the node's message for any other code, and no transaction row is
\* written (state and tx_id stay as they are); if b is a success no error is returned.
C18_BroadcastErrorClasses ==
    [][\A w \in Workers :
          Broadcasts(w) =>
              \E b \in BroadcastTxResults(TxID(wk[w].seq, wk[w].pos)) :
                  IF b.ok \/ MatchesDuplicateRE(b.msg)
                  THEN wk'[w].pc # "send" /\ wk'[w].out = NoOut
                  ELSE /\ wk'[w].pc = "send"
                       /\ wk'[w].out = BroadcastErrorFor(b)
                       /\ txs' = txs]_vars

\* broadcastTx has returned NonRecoverable with the node's message and code for a
\* rejected broadcast; the row is still validated and has no tx_id
C18_Witness ==
    \E w \in Workers :
        /\ wk[w].pc = "send"
        /\ wk[w].out = [kind |-> "nonrecoverable", reason |-> MsgOther, code |-> NodeErrorCode]
        /\ \E p \in DOMAIN txs[wk[w].seq] :
              /\ txs[wk[w].seq][p].state = TransactionStateValidated
              /\ txs[wk[w].seq][p].id = NoID

\* C19: when WaitForTxStatus(tx.ID, confirmed) succeeds, the height it returns is the
\* height the node holds for that id; that height is what the worker persists with state
\* confirmed for the transaction and what it keeps for the target height. While nothing
\* leaves the blockchain, every row persisted confirmed carries the node's height of its
\* id, and the target height awaited is the greatest of them plus heightsAfterLastTx.
C19_ConfirmedHeightIsNodeHeight ==
    /\ [][\A w \in Workers :
            LET r == wk[w] IN
            WorkerActs(w) =>
               /\ (r.pc = "waitConfirm" /\ wk'[w].pc = "setConfirmed") =>
                     /\ IsConfirmed(r.loc[r.pos].id)
                     /\ wk'[w].arg = TxStatus(r.loc[r.pos].id)
               /\ r.pc = "setConfirmed" =>
                     /\ txs'[r.seq][r.pos].state = TransactionStateConfirmed
                     /\ txs'[r.seq][r.pos].height = r.arg
                     /\ wk'[w].pc # "send" => wk'[w].loc[r.pos].height = r.arg]_vars
    /\ [](~cfg.reorg =>
            /\ \A s \in Seqs : \A p \in DOMAIN txs[s] :
                  txs[s][p].state = TransactionStateConfirmed =>
                      /\ IsConfirmed(txs[s][p].id)
                      /\ txs[s][p].height = TxStatus(txs[s][p].id)
            /\ \A w \in Workers :
                  wk[w].pc \in {"height0", "heartbeat", "heightQ"} =>
                      TargetHeight(wk[w]) =
                          SetMax({TxStatus(wk[w].loc[p].id) : p \in DOMAIN wk[w].loc})
                              + HeightsAfterLastTx)

\* a transaction confirmed by the node at a height above the first is persisted
\* confirmed at that height, and a worker is waiting for the target height
C19_Witness ==
    \E w \in Workers :
        /\ wk[w].pc = "heartbeat"
        /\ \E p \in DOMAIN txs[wk[w].seq] :
              /\ txs[wk[w].seq][p].state = TransactionStateConfirmed
              /\ txs[wk[w].seq][p].height > 1
              /\ txs[wk[w].seq][p].height = TxStatus(TxID(wk[w].seq, p))

\* C20: WaitForTxStatus returns one of the node's answers c for the id. If c is an
\* error, the worker returns Recoverable with the node's message: for TxNotFoundError
\* after writing the row back to pending (its only write), for any other error (the
\* deadline, a status error) at once and without writing, so that the row it was
\* resuming as unconfirmed stays unconfirmed.
C20_ConfirmationWaitErrors ==
    [][\A w \in Workers :
          LET r == wk[w] IN
          WorkerActs(w) =>
             /\ r.pc = "waitConfirm" =>
                   \E c \in WaitForTxStatusResults(r.loc[r.pos].id) :
                       /\ txs' = txs
                       /\ IF c.ok THEN wk'[w].pc = "setConfirmed"
                          ELSE IF c.code = TxNotFoundError
                          THEN wk'[w].pc = "setPendingNF" /\ wk'[w].vmsg = c.msg
                          ELSE /\ wk'[w].pc = "send"
                               /\ wk'[w].out = [kind |-> "recoverable", reason |-> c.msg,
                                                code |-> 0]
             /\ r.pc = "setPendingNF" =>
                   /\ txs' = [txs EXCEPT ![r.seq][r.pos].state = TransactionStatePending,
                                         ![r.seq][r.pos].fresh = TRUE]
                   /\ wk'[w].pc = "send"
                   /\ wk'[w].out = [kind |-> "recoverable", reason |-> MsgTxNotFound,
                                    code |-> 0]]_vars

\* the node did not know the transaction awaited: the row is pending again and the
\* worker returns Recoverable with the node's message
C20_Witness ==
    \E w \in Workers :
        /\ wk[w].pc = "send"
        /\ wk[w].out = [kind |-> "recoverable", reason |-> MsgTxNotFound, code |-> 0]
        /\ \E p \in DOMAIN txs[wk[w].seq] :
              /\ txs[wk[w].seq][p].state = TransactionStatePending
              /\ txs[wk[w].seq][p].id # NoID

\* the positions of sequence s whose transaction is persisted in state error
ErrorPositions(s) == {k \in DOMAIN txs[s] : txs[s][k].state = TransactionStateError}

\* C21: when the verdict on the transaction at position k is a timestamp error (or the
\* transaction is outdated), the worker persists the message if none is set, writes the
\* row state error and returns NonRecoverable with the row's message and code 0; the
\* dispatcher writes the sequence state error with that message and error_code 0; and
\* once the row at k is in state error no row at a position above k is written, no
\* transaction above k reaches the node, and no worker works at a position above k.
C21_TimestampErrorStopsSequence ==
    /\ [][\A w \in Workers :
            LET r == wk[w] IN
            WorkerActs(w) =>
               /\ (r.pc = "setErrMsg" /\ r.vfatal) =>
                     (txs'[r.seq][r.pos].err = r.vmsg /\ wk'[w].pc = "setErrState")
               /\ r.pc = "setErrState" =>
                     /\ txs'[r.seq][r.pos].state = TransactionStateError
                     /\ txs'[r.seq][r.pos].err \in {MsgTimestamp, MsgOther}
                     /\ wk'[w].pc = "send"
                     /\ wk'[w].out = [kind |-> "nonrecoverable",
                                      reason |-> txs'[r.seq][r.pos].err, code |-> 0]]_vars
    /\ [][\A i \in Insts : \A w \in Workers :
            (Received(i, w) /\ wk[w].out.kind = "nonrecoverable") =>
                \A k \in ErrorPositions(wk[w].seq) :
                    /\ seqs'[wk[w].seq].state = StateError
                    /\ seqs'[wk[w].seq].errMsg = txs[wk[w].seq][k].err
                    /\ seqs'[wk[w].seq].errCode = 0]_vars
    /\ [](\A s \in Seqs : \A k \in ErrorPositions(s) :
            /\ \A p \in DOMAIN txs[s] :
                  p > k => (txs[s][p] = NewTxRow /\ TxStatus(TxID(s, p)) = NotFound)
            /\ \A w \in Workers :
                  (Running(w) /\ wk[w].seq = s /\ wk[w].pc # "load") => wk[w].pos <= k)

\* the error info of sequence row s is populated (ErrorInfo is not the zero value)
ErrorInfoPopulated(s) == seqs[s].errMsg # "" \/ seqs[s].errCode # 0

\* C22: in every reachable state, the error_message / error_code of a sequence row are
\* populated if and only if the row's state is error.
C22_ErrorInfoIffError ==
    \A s \in Seqs :
        seqs[s].state # "absent" => (ErrorInfoPopulated(s) <=> seqs[s].state = StateError)

\* the program points of processTx (validateTx and broadcastTx included)
CascadePcs == PerTxPcs \cup {"waitNext", "waitNextPoll", "setPendingNF"}

\* the place of a program point in the cascade of processTx: write processing (1),
\* validateTx with its retries (2), write validated (3), BroadcastTx (4), the error
\* message reset (5), the tx_id write (6), write unconfirmed (7), the confirmation
\* wait (8), write confirmed or, for a transaction the node lost, write pending (9)
CascadeRank(pc) ==
    CASE pc = "txProcessing" -> 1
      [] pc \in {"validate", "setErrMsg", "waitNext", "waitNextPoll", "setErrState", "resetMsgV"} -> 2
      [] pc = "setValidated" -> 3
      [] pc = "broadcast" -> 4
      [] pc = "resetMsgB" -> 5
      [] pc = "setTxID" -> 6
      [] pc = "setUnconfirmed" -> 7
      [] pc = "waitConfirm" -> 8
      [] pc \in {"setPendingNF", "setConfirmed"} -> 9
      [] OTHER -> 0

\* the first step of the cascade for a transaction found in state st
EntryRank(st) ==
    CASE st = TransactionStatePending -> 1
      [] st = TransactionStateProcessing -> 2
      [] st = TransactionStateValidated -> 4
      [] st = TransactionStateUnconfirmed -> 8
      [] OTHER -> 0

\* C23: processTx entered for a transaction in state pending, processing, validated or
\* unconfirmed starts at the step that follows that state and goes through the cascade
\* [write processing, validate, write validated, broadcast, write unconfirmed, wait for
\* confirmation, write confirmed(height)] one step at a time in that order (validation
\* may retry within its step): no step is skipped, none before the entry state is made,
\* each state write is in the store before the next node call, and only the write of
\* confirmed lets Run go on to a later transaction.
C23_ResumableCascade ==
    [][\A w \in Workers :
          LET r == wk[w]
              r2 == wk'[w] IN
          WorkerActs(w) =>
             /\ (r.pc \in CascadePcs /\ r2.pc \in CascadePcs /\ r2.pos = r.pos) =>
                   \/ CascadeRank(r2.pc) = CascadeRank(r.pc) + 1
                   \/ CascadeRank(r2.pc) = 2 /\ CascadeRank(r.pc) = 2
             /\ (r2.pc \in CascadePcs /\ (r.pc \notin CascadePcs \/ r2.pos # r.pos)) =>
                   CascadeRank(r2.pc) = EntryRank(r2.loc[r2.pos].state)
             /\ (r.pc \in CascadePcs /\ r2.pc # "send" /\ r2.pos # r.pos) =>
                   /\ r.pc = "setConfirmed" /\ r2.pos > r.pos
                   /\ txs'[r.seq][r.pos].state = TransactionStateConfirmed
                   /\ txs'[r.seq][r.pos].height = r.arg
             /\ r.pc = "txProcessing" =>
                   (txs'[r.seq][r.pos].state = TransactionStateProcessing /\ r2.pc = "validate")
             /\ r.pc = "setValidated" =>
                   (txs'[r.seq][r.pos].state = TransactionStateValidated /\ r2.pc = "broadcast")
             /\ r.pc = "setUnconfirmed" =>
                   (txs'[r.seq][r.pos].state = TransactionStateUnconfirmed /\ r2.pc = "waitConfirm")]_vars

\* a worker that found its transaction in state processing after txProcessingTTL has
\* gone through the cascade from validation on and is about to write confirmed
C23_Witness ==
    \E w \in Workers : /\ wk[w].pc = "setConfirmed"
                          /\ ~wk[w].loc[wk[w].pos].fresh

\* worker w is in the ticker loop of waitForTargetHeight
InTickerLoop(w) ==
    \/ wk[w].pc \in {"heartbeat", "heightQ"}
    \/ wk[w].pc \in {"avail", "reset"} /\ wk[w].pos = NTxs(wk[w])

\* the ids handed to waitForTargetHeight that the node does not hold
GoneIDs(r) == {id \in {r.loc[p].id : p \in DOMAIN r.loc} : TxStatus(id) = NotFound}

\* C24: each tick of waitForTargetHeight first writes the sequence processing (the
\* heartbeat), then checks the availability of all confirmed ids, then reads the height.
\* The wait returns nil on a tick only from that height read, with a height that has
\* reached the target, and the height is read only after a check that found every id
\* held by the node; a check that finds an id gone leads to the reset and Recoverable,
\* and the height is not read on that tick.
C24_QuiescenceTick ==
    [][\A w \in Workers :
          LET r == wk[w]
              r2 == wk'[w] IN
          (WorkerActs(w) /\ InTickerLoop(w)) =>
             /\ r.pc = "heartbeat" =>
                   /\ seqs' = SetSequenceStateByID(seqs, r.seq, StateProcessing)
                   /\ r2.pc = "avail" /\ r2.pos = NTxs(r2) /\ txs' = txs
             /\ r.pc = "avail" =>
                   /\ ConfirmedTxIDs(r) = {r.loc[p].id : p \in DOMAIN r.loc}
                   /\ r2.pc \in {"heightQ", "reset", "send"}
                   /\ r2.pc = "heightQ" => GoneIDs(r) = {}
                   /\ r2.pc = "reset" => r2.arg \in GoneIDs(r)
                   /\ r2.pc = "send" => r2.out.kind = "recoverable"
                   /\ GoneIDs(r) # {} => r2.pc # "heightQ"
             /\ r.pc = "reset" => (r2.pc = "send" /\ r2.out.kind = "recoverable")
             /\ r.pc = "heightQ" =>
                   /\ r2.pc \in {"send", "heartbeat"}
                   /\ (r2.pc = "send" /\ r2.out.kind = "nil") =>
                         (height >= TargetHeight(r) /\ r2.h = height)
                   /\ r2.pc = "heartbeat" => height < TargetHeight(r)
             /\ (r2.pc = "send" /\ r2.out.kind = "nil") => r.pc = "heightQ"]_vars

\* a tick has written the heartbeat and found every confirmed id available, and the
\* height it is about to read has reached the target
C24_Witness ==
    \E w \in Workers : /\ wk[w].pc = "heightQ"
                          /\ height >= TargetHeight(wk[w])
                          /\ seqs[wk[w].seq].state = StateProcessing

\* the outcome of Run for a transaction under processing
UnderProcessing == [kind |-> "recoverable", code |-> 0,
                    reason |-> "tx is under processing, processing TTL is not over"]

\* worker w is at the switch of Run for the transaction at position p, found in state
\* processing: right after the load for the first transaction, after the availability
\* check of the confirmed ones for a later transaction
AtProcessingRow(w, p) ==
    LET r == wk[w] IN
    \/ /\ r.pc = "load" /\ p = 0
       /\ p \in DOMAIN txs[r.seq]
       /\ txs[r.seq][p].state = TransactionStateProcessing
    \/ /\ r.pc = "avail" /\ p = r.pos
       /\ p \in DOMAIN r.loc
       /\ r.loc[p].state = TransactionStateProcessing

\* the updated_at of that row, as loaded, was younger than txProcessingTTL at the load
LoadedYoung(w, p) ==
    IF wk[w].pc = "load" THEN txs[wk[w].seq][p].fresh ELSE wk[w].loc[p].fresh

DuplicateVerdictIsSuccess ==
    \A w \in Workers :
        LET r == wk[w]
            r2 == wk'[w] IN
        (WorkerActs(w) /\ r.pc = "validate") =>
           /\ (IsConfirmed(TxID(r.seq, r.pos)) /\ r2.pc # "send") =>
                 (r2.pc = "setValidated" /\ txs' = txs /\ r2.loc = r.loc)
           /\ r2.pc = "setValidated" => IsConfirmed(TxID(r.seq, r.pos))

\* C26 (as stated): a transaction whose validation meets the duplicate verdict is
\* treated as on the chain already: validateTx returns success without persisting an
\* error message or an error state, and the worker, having written validated for a
\* transaction the node holds confirmed, does not call BroadcastTx but goes on to the
\* confirmation wait.
C26_DuplicateSkipsBroadcast ==
    /\ [][DuplicateVerdictIsSuccess]_vars
    /\ [][\A w \in Workers :
            (/\ WorkerActs(w) /\ wk[w].pc = "setValidated"
             /\ IsConfirmed(TxID(wk[w].seq, wk[w].pos)))
                => wk'[w].pc = "waitConfirm"]_vars

\* C26 (amended): a transaction whose validation meets the duplicate verdict is treated
\* as on the chain already: validateTx returns success without persisting an error
\* message or an error state; the worker writes validated and then does call
\* BroadcastTx, as for any validated transaction; for a transaction the node holds the
\* call does not end in an error carrying the duplicate message, and when it returns no
\* error the worker goes on with the transaction's id towards the confirmation wait.
C26_DuplicateBroadcastAbsorbed ==
    /\ [][DuplicateVerdictIsSuccess]_vars
    /\ [][\A w \in Workers :
            LET r == wk[w]
                r2 == wk'[w] IN
            WorkerActs(w) =>
               /\ r.pc = "setValidated" =>
                     /\ txs'[r.seq][r.pos].state = TransactionStateValidated
                     /\ r2.pc = "broadcast"
               /\ (r.pc = "broadcast" /\ TxStatus(TxID(r.seq, r.pos)) # NotFound) =>
                     /\ r2.out.reason # MsgDuplicate
                     /\ r2.pc # "send" => r2 = AfterBroadcastOf(r, TxID(r.seq, r.pos))
                     /\ ~cfg.errs => r2.pc # "send"]_vars

\* validateTx has returned success on the duplicate verdict: the worker is about to
\* write validated for a transaction whose earlier invalid verdict is still stored
C26_Witness ==
    \E w \in Workers : /\ wk[w].pc = "setValidated"
                          /\ wk[w].loc[wk[w].pos].err # ""
                          /\ txs[wk[w].seq][wk[w].pos].err # ""
                          /\ IsConfirmed(TxID(wk[w].seq, wk[w].pos))

\* the steps of validateTx between an invalid verdict and the next ValidateTx call
RetryPcs == {"waitNext", "waitNextPoll"}

\* C27: an invalid verdict that is neither the duplicate nor a timestamp error, for a
\* transaction that is not outdated locally, neither sets the transaction to error nor
\* makes Run return: the worker (having stored the message if none was stored) waits
\* for the next height and validates the same transaction again.  The round ends with
\* a valid verdict (validation goes on to the reset of the message), with a timestamp
\* or outdated condition (state error is written and Run returns NonRecoverable), or
\* with a failing node call (Run returns Recoverable and leaves the transaction's row as
\* it is, which the worker holds in state processing).
C27_InvalidVerdictRetries ==
    [][\A w \in Workers :
        LET r == wk[w]
            r2 == wk'[w]
            row == txs[r.seq][r.pos]
            row2 == txs'[r.seq][r.pos] IN
        WorkerActs(w) =>
           /\ (r.pc = "validate" /\ r2.pc # "send" /\ r2.vmsg # "" /\ ~r2.vfatal) =>
                 /\ r2.pc \in {"setErrMsg", "waitNext"}
                 /\ r2.pc = "setErrMsg" <=> r.loc[r.pos].err = ""
                 /\ txs' = txs
           /\ (r.pc = "setErrMsg" /\ ~r.vfatal) =>
                 /\ r2.pc = "waitNext"
                 /\ row2.state = row.state
                 /\ r2.loc[r.pos].state = TransactionStateProcessing
           /\ r.pc \in RetryPcs =>
                 /\ txs' = txs
                 /\ r2.pc \in RetryPcs \cup {"validate", "send"}
                 /\ r2.pc # "send" => (r2.seq = r.seq /\ r2.pos = r.pos)
                 /\ r2.pc = "validate" => r.pc = "waitNextPoll"
           /\ (r.pc \in RetryPcs \cup {"validate"} /\ r2.pc = "send"
                 /\ r2.out.kind = "recoverable") =>
                 /\ txs' = txs
                 /\ r.loc[r.pos].state = TransactionStateProcessing
           /\ (r.pc = "validate" /\ r2.pc = "resetMsgV") => txs' = txs
           /\ (r.pc = "validate" /\ r2.pc # "send" /\ r2.vfatal) =>
                 r2.pc \in {"setErrMsg", "setErrState"}
           /\ (r.pc = "setErrMsg" /\ r.vfatal) => r2.pc = "setErrState"
           /\ r.pc = "setErrState" =>
                 /\ row2.state = TransactionStateError
                 /\ r2.pc = "send" /\ r2.out.kind = "nonrecoverable"]_vars

\* a second round: the worker validates again a transaction whose invalid verdict it
\* has stored, and the row is neither in error nor has Run returned
C27_Witness ==
    \E w \in Workers : /\ wk[w].pc = "validate"
                          /\ wk[w].loc[wk[w].pos].err = MsgOther
                          /\ txs[wk[w].seq][wk[w].pos].err = MsgOther
                          /\ txs[wk[w].seq][wk[w].pos].state = TransactionStateProcessing

\* C28: the first validation reason wins.  validateTx writes a transaction's stored
\* error_message only while it is empty; an invalid verdict met while a message is
\* stored (a timestamp error included) leaves the stored message as it is; and the
\* NonRecoverable error of a timestamp or outdated failure carries the stored (first)
\* message, not the latest verdict's.
C28_FirstReasonWins ==
    [][\A w \in Workers :
        LET r == wk[w]
            r2 == wk'[w]
            row == txs[r.seq][r.pos]
            row2 == txs'[r.seq][r.pos] IN
        WorkerActs(w) =>
           /\ r.pc = "setErrMsg" =>
                 /\ row.err = ""
                 /\ row2.err = r.vmsg /\ r.vmsg # ""
           /\ (r.pc = "validate" /\ row.err # "") =>
                 /\ r2.pc # "setErrMsg"
                 /\ txs' = txs
           /\ (r.pc \in RetryPcs \cup {"setErrState"}) => row2.err = row.err
           /\ (r.pc \in RetryPcs \cup {"setErrState"}) => row.err # ""
           /\ r.pc = "setErrState" =>
                 /\ r2.pc = "send"
                 /\ r2.out = NewNonRecoverableError(row.err, 0)]_vars

\* C29: whenever a transaction is broadcast after a valid verdict, its stored
\* error_message has been cleared before state validated is written, whatever invalid
\* verdicts preceded it; so every transaction row in state unconfirmed or confirmed has
\* an empty error_message.
C29_ValidClearsMessage ==
    /\ [][\A w \in Workers :
            LET r == wk[w]
                r2 == wk'[w]
                row == txs[r.seq][r.pos]
                row2 == txs'[r.seq][r.pos] IN
            WorkerActs(w) =>
               /\ r.pc = "resetMsgV" => (row2.err = "" /\ r2.pc = "setValidated")
               /\ (r.pc = "setValidated" /\ r.loc[r.pos].err = "") =>
                     (row.err = "" /\ row2.err = "")
               /\ (r.pc = "broadcast" /\ r.loc[r.pos].err = "") => row.err = ""]_vars
    /\ [](\A s \in Seqs : \A p \in DOMAIN txs[s] :
            txs[s][p].state \in {TransactionStateUnconfirmed, TransactionStateConfirmed}
                => txs[s][p].err = "")

\* C30: a store call that fails under a worker (the load of the transactions, a write
\* of a transaction's state, id, message or confirmation, the bulk reset, the
\* heartbeat) makes Run return a FatalError at once: the step writes no row, Run is
\* over (a worker that has returned makes no store write and no node call, it only
\* hands its outcome to the event loop); an outcome that carries the store's error is
\* a FatalError, and a FatalError comes from a store call only.  A store call that fails under the event loop makes RunLoop return: no row is
\* written, the loop is not entered again and no goroutine of the process is left.
C30_StoreFailureIsFatal ==
    /\ [][\A w \in Workers :
            LET r == wk[w]
                r2 == wk'[w] IN
            /\ (WorkerActs(w) /\ r2.pc = "send" /\ r2.out.kind = "fatal") =>
                  /\ r.pc \in StorePcs
                  /\ seqs' = seqs /\ txs' = txs /\ chain' = chain
            /\ (WorkerActs(w) /\ r2.pc = "send" /\ r2.out.reason = "store") =>
                  /\ r2.out = NewFatalError("store")
                  /\ r.pc \in StorePcs
            /\ (r.pc = "send" /\ r2 # r) =>
                  /\ txs' = txs /\ chain' = chain
                  /\ \E i \in Insts : Received(i, w) \/ (dloop[i] # "off" /\ dloop'[i] = "off")]_vars
    /\ [][\A i \in Insts :
            /\ (dloop[i] # "off" /\ dloop'[i] = "off") =>
                  /\ seqs' = seqs /\ txs' = txs
                  /\ \A w \in Workers : wk'[w].inst # i
            /\ (dloop[i] = "off" /\ i \in cfg.active) => dloop'[i] = "off"]_vars

\* a store call has failed under a worker whose transaction is broadcast and not yet
\* recorded: Run has returned the FatalError and the row is as the last write left it
C30_Witness ==
    \E w \in Workers : /\ wk[w].pc = "send"
                          /\ wk[w].out = NewFatalError("store")
                          /\ \E p \in DOMAIN txs[wk[w].seq] :
                                /\ txs[wk[w].seq][p].state = TransactionStateValidated
                                /\ TxStatus(TxID(wk[w].seq, p)) # NotFound

\* the outcome of a Run that met a payload it could not decode (the text of the
\* json.Unmarshal error stands for itself)
DecodeFailed(o) == o.reason = "json"

C32_ErrorHasCause ==
    \A s \in Seqs :
        seqs[s].state = StateError =>
            \/ \E p \in DOMAIN txs[s] : txs[s][p].state = TransactionStateError
            \/ seqs[s].errCode = NodeErrorCode /\ seqs[s].errMsg # ""

\* C33: in every reachable state, a transaction row has a height only if its state is
\* confirmed: a row in state pending, processing, validated, unconfirmed or error (a row
\* reset to pending after a reorganisation or a not-found included) carries no height.
C33_HeightOnlyWhenConfirmed ==
    \A s \in Seqs : \A p \in DOMAIN txs[s] :
        txs[s][p].height # 0 => txs[s][p].state = TransactionStateConfirmed

\* C34: lease acquisition is exclusive across instances.  A step in which an event loop
\* leases sequence s (the write of processing and runWorker for the id at the head of
\* the ids it has read) finds the row as it was read: still pending in the default
\* branch, still hanging (processing with an expired lease) in the tick branch; so no
\* second instance leases s from the pending or hanging state another instance has
\* leased it from.
C34_LeaseIsExclusive ==
    [][\A i \in Insts :
        (/\ dloop[i] \in {"tick", "default"} /\ todo[i] # <<>>
         /\ todo'[i] = Tail(todo[i])) =>
            LET s == Head(todo[i]) IN
            /\ dloop[i] = "default" => seqs[s].state = StatePending
            /\ dloop[i] = "tick" => (seqs[s].state = StateProcessing /\ ~seqs[s].fresh)]_vars

C36_OneOutcomePerRun ==
    /\ [](\A w \in Workers :
            wk[w].pc = "send" =>
                /\ wk[w].out.kind \in {"nil", "recoverable", "nonrecoverable", "fatal"}
                /\ (w \in ErrSenders(wk[w].inst)) # (w \in DoneSenders(wk[w].inst)))
    /\ [][\A w \in Workers :
            LET i == wk[w].inst
                s == wk[w].seq
                o == wk[w].out IN
            (wk[w].pc = "send" /\ wk'[w] # wk[w]) =>
                \/ /\ dloop[i] = "off"
                   /\ wk'[w] = FreeW /\ seqs' = seqs /\ txs' = txs
                \/ /\ dloop[i] = "select"
                   /\ wk'[w].pc \in {"free", "start"}
                   /\ \A x \in Workers \ {w} :
                         (wk[x].pc = "send" /\ wk[x].inst = i) => wk'[x] = wk[x]
                   /\ inflight'[i] = inflight[i] \ {s}
                   /\ \/ dloop'[i] = "off" /\ seqs' = seqs
                      \/ /\ dloop'[i] = "select"
                         /\ o.kind = "nil" => seqs' = SetSequenceStateByID(seqs, s, StateDone)
                         /\ o.kind = "recoverable" =>
                               /\ seqs' = SetSequenceStateByID(seqs, s, StateProcessing)
                               /\ \E x \in Workers : wk'[x].pc = "start" /\ wk'[x].seq = s
                                                       /\ wk[x].pc \in {"free", "send"}
                         /\ o.kind = "nonrecoverable" =>
                               seqs' = SetSequenceErrorStateByID(seqs, s, o.reason, o.code)
                         /\ o.kind # "fatal"]_vars
    /\ [][\A i \in cfg.active :
            dloop[i] = "off" =>
                /\ dloop'[i] = "off"
                /\ Closed = {}
                /\ \A w \in Workers : wk'[w].pc = "start" => wk[w].pc = "start"]_vars
    /\ \A w \in Workers :
          (wk[w].pc = "send" /\ dloop[wk[w].inst] # "off")
              ~> (wk[w].pc # "send" \/ \A i \in cfg.active : dloop[i] = "off")

\* RunLoop has returned, and a worker that went on has finished its Run since: it is
\* blocked on its send with a nil outcome and its sequence is in state processing
C36_Witness ==
    \E w \in Workers : /\ wk[w].pc = "send" /\ wk[w].out = NilOut
                          /\ dloop[wk[w].inst] = "off"
                          /\ seqs[wk[w].seq].state = StateProcessing
                          /\ \A p \in DOMAIN txs[wk[w].seq] :
                                txs[wk[w].seq][p].state = TransactionStateConfirmed

\* C37: in a single instance, a worker that is executing Run(S), or has finished with
\* its outcome not yet received, has S in sequencesUnderProcessing; S enters the set
\* only by the goroutine's registration before Run and leaves it only when the
\* dispatcher receives an outcome of S; the ids a tick leases were not in the set.
C37_InFlightSet ==
    /\ [](\A w \in Workers : wk[w].pc \notin {"free", "start"}
              => wk[w].seq \in inflight[wk[w].inst])
    /\ [][\A i \in Insts :
            /\ \A s \in inflight'[i] \ inflight[i] :
                  \E w \in Workers : /\ wk[w].pc = "start" /\ wk[w].inst = i
                                     /\ wk[w].seq = s /\ wk'[w].pc = "load"
            /\ \A s \in inflight[i] \ inflight'[i] :
                  \E w \in Workers : /\ wk[w].pc = "send" /\ wk[w].inst = i
                                     /\ wk[w].seq = s /\ wk'[w] # wk[w]
            /\ (dloop[i] = "select" /\ dloop'[i] = "tick")
                  => \A k \in DOMAIN todo'[i] : todo'[i][k] \notin inflight[i]]_vars

\* C38: within a single instance, once the dispatcher has written done or error for
\* sequence S (the row is in that state), no worker is spawned for S again and neither
\* the sequence row nor a transaction row of S is written again (the ageing of
\* updated_at is no write).
C38_TerminalIsFinal ==
    [][\A s \in Seqs :
          seqs[s].state \in {StateDone, StateError} =>
              /\ [seqs'[s] EXCEPT !.fresh = FALSE] = [seqs[s] EXCEPT !.fresh = FALSE]
              /\ seqs'[s].fresh => seqs[s].fresh
              /\ \A p \in DOMAIN txs[s] :
                    /\ [txs'[s][p] EXCEPT !.fresh = FALSE] = [txs[s][p] EXCEPT !.fresh = FALSE]
                    /\ txs'[s][p].fresh => txs[s][p].fresh
              /\ \A w \in Workers :
                    (wk'[w].pc = "start" /\ wk'[w].seq = s) => wk'[w] = wk[w]]_vars

\* C39: with one worker at a time on a sequence, in every reachable state a
\* transaction that is not confirmed is followed by pending transactions only: the
\* rows are a run of confirmed rows, at most one row in processing, validated,
\* unconfirmed or error, then pending rows.
C39_PrefixStructure ==
    \A s \in Seqs : \A k \in DOMAIN txs[s] :
        txs[s][k].state # TransactionStateConfirmed =>
            \A p \in DOMAIN txs[s] : p > k => txs[s][p].state = TransactionStatePending

\* a confirmed transaction was pulled out and the rows from it on were reset while an
\* earlier row stays confirmed; and a row in the middle is under way
C39_Witness ==
    \E s \in Seqs :
        /\ DOMAIN txs[s] = 0 .. 2
        /\ txs[s][0].state = TransactionStateConfirmed
        /\ txs[s][1].state = TransactionStateUnconfirmed
        /\ txs[s][1].height # 0
        /\ txs[s][2].state = TransactionStatePending

\* C40: a transaction left in state processing does not block its sequence for ever.
\* Neither the processing-TTL guard of Run nor the dispatcher's respawn after its
\* Recoverable outcome writes a transaction row, so updated_at is not refreshed; and
\* under fair scheduling a transaction in state processing leads to a Run that is at
\* its validation (or the row has left processing, the sequence is closed, or no
\* dispatcher is running).
C40_ProcessingTTLEnds ==
    /\ [][\A w \in Workers :
            /\ (wk[w].pc \in {"load", "avail"} /\ wk'[w].pc = "send"
                    /\ wk'[w].out = UnderProcessing) => txs' = txs
            /\ (wk[w].pc = "send" /\ wk[w].out = UnderProcessing /\ wk'[w] # wk[w])
                  => txs' = txs]_vars
    /\ \A s \in Seqs : \A p \in Positions(MaxTx) :
          (p \in DOMAIN txs[s] /\ txs[s][p].state = TransactionStateProcessing)
             ~> \/ \E w \in Workers : /\ wk[w].seq = s /\ wk[w].pos = p
                                      /\ wk[w].pc = "validate"
                \/ p \in DOMAIN txs[s] /\ txs[s][p].state # TransactionStateProcessing
                \/ seqs[s].state \in {StateDone, StateError}
                \/ \A i \in Insts : dloop[i] = "off"

\* a Run has backed off from a processing transaction whose updated_at has meanwhile
\* got older than txProcessingTTL: the next Run takes the transaction over
C40_Witness ==
    \E w \in Workers : \E p \in Positions(MaxTx) :
        /\ wk[w].pc = "send" /\ wk[w].out = UnderProcessing
        /\ dloop[wk[w].inst] = "select"
        /\ p \in DOMAIN txs[wk[w].seq]
        /\ txs[wk[w].seq][p].state = TransactionStateProcessing
        /\ ~txs[wk[w].seq][p].fresh
====
